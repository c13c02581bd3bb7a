------------------------ MODULE SessionCommitProofs ------------------------
(***************************************************************************)
(* Theorems about SessionCommit for any number of requests, steps and      *)
(* faults: the properties that the run session_race checks.                *)
(*                                                                         *)
(* What a request holds in memory may be old, and the invariant says how   *)
(* old it can be: a trunk of the version that the row has is the row       *)
(* (TrunkRead), an install likewise (OldRead), a leaf names an identity of *)
(* its own step for good (Known, LeavesRead).  Owed follows the write      *)
(* that left an install processing to the request that made it.            *)
(***************************************************************************)
EXTENDS SessionCommit, FiniteSetTheorems, TLAPS

\* An identity that a step's leaf or install names is an identity of that step.
Own(d, s) == d # 0 => d \in DOMAIN identity /\ identity[d].step = s

OwnData(row) == \A s \in Connector : Own(row.data[s], s)

Known ==
  /\ \A l \in DOMAIN leaf : leaf[l].step \in Connector => Own(leaf[l].target, leaf[l].step)
  /\ \A i \in DOMAIN install : There(i) => OwnData(install[i])

\* The leaves that children names are leaves of their steps.
Children(child) ==
  \A s \in Step : child[s] # 0 => child[s] \in DOMAIN leaf /\ leaf[child[s]].step = s

\* What a request was asked names a leaf that is there.
Asked(r) ==
  /\ pc[r] \in {"parent", "install", "leaf"} =>
       \/ call[r].kind = "start"
       \/ call[r].kind = "finish" /\ call[r].arg \in DOMAIN leaf /\ leaf[call[r].arg].step < N
  /\ pc[r] = "put" => call[r] # NoCall /\ call[r].arg \in DOMAIN leaf

\* A trunk read is older than the row, or is the row.
TrunkRead(r) ==
  /\ mem[r].trunk.ver < trunk.ver \/ mem[r].trunk = trunk
  /\ Children(mem[r].trunk.child)

\* A commit holds a leaf for each step, and the install that the session names.
Committing(r) ==
  /\ pc[r] \in Answering \cup Background => \A s \in Step : mem[r].trunk.child[s] # 0
  /\ pc[r] \in {"create", "name"} => mem[r].trunk.target = 0
  /\ pc[r] = "name" => mem[r].id \in DOMAIN install
  /\ pc[r] \in Background => mem[r].id \in DOMAIN install /\ mem[r].trunk.target = mem[r].id

\* The leaves read so far; past "leaves" all are, and none failed.
LeavesRead(r) ==
  /\ pc[r] = "leaves" => \A s \in Connector \ mem[r].todo : Own(mem[r].got[s].target, s)
  /\ pc[r] \in {"gather", "persist"} =>
       /\ \A s \in Connector : Own(mem[r].got[s].target, s)
       /\ \A s \in Step : mem[r].got[s].output # Failed

\* An install read is older than the row, or is the row.
OldRead(r) ==
  /\ mem[r].old # Gone => OwnData(mem[r].old)
  /\ pc[r] = "leaf" /\ mem[r].trunk.target # 0 => mem[r].old # Gone
  /\ pc[r] = "fail" =>
       /\ mem[r].old # Gone
       /\ There(mem[r].id) => \/ mem[r].old.ver < install[mem[r].id].ver
                              \/ mem[r].old = install[mem[r].id]

OfRequest(r) == Asked(r) /\ TrunkRead(r) /\ Committing(r) /\ LeavesRead(r) /\ OldRead(r)

Control == \A r \in Req : OfRequest(r)

\* The request that left install i processing, before its last write or without it.
Owes(r, i) ==
  /\ mem[r].id = i
  /\ pc[r] \in Background \cup {"name", "unnamed", "lost"}
  /\ pc[r] = "fail" => mem[r].old.ver = install[i].ver

Owed ==
  \A i \in DOMAIN install :
    There(i) /\ i \notin edited /\ install[i].status = "processing" => \E r \in Req : Owes(r, i)

\* The install that the session names is there, or was.
Named == trunk.target # 0 => trunk.target \in DOMAIN install

IInv ==
  /\ TypeOK /\ OneLeafPerStep /\ Known /\ Control
  /\ CommittedWhole /\ Owed /\ Named /\ OutputIsCommitted


-----------------------------------------------------------------------------
(***************************************************************************)
(* Ranks: the steps of a set, counted.                                     *)
(***************************************************************************)

\* Counting the steps of S up to s numbers the steps of S from 1, each its own.
LEMMA Ranks ==
    ASSUME NEW S \in SUBSET Step
    PROVE  LET rank(s) == Cardinality({t \in S : t <= s})
           IN  /\ Cardinality(S) \in Nat
               /\ \A s \in S : rank(s) \in 1 .. Cardinality(S)
               /\ \A s, t \in S : rank(s) = rank(t) => s = t
               /\ \A i \in 1 .. Cardinality(S) : \E s \in S : rank(s) = i
<1> DEFINE upTo(s) == {t \in S : t <= s}
           rank(s) == Cardinality(upTo(s))
           f == [s \in S |-> rank(s)]
<1>1. IsFiniteSet(S) /\ Cardinality(S) \in Nat
  <2>1. IsFiniteSet(1 .. N)
    BY ConstantsOK, FS_Interval DEF ConstantsOK
  <2> QED
    BY <2>1, FS_Subset, FS_CardinalityType DEF Step
<1>2. \A s \in S : /\ IsFiniteSet(upTo(s)) /\ rank(s) \in Nat
                   /\ rank(s) <= Cardinality(S)
  BY <1>1, FS_Subset, FS_CardinalityType
<1>3. \A s \in S : rank(s) \in 1 .. Cardinality(S)
  <2> TAKE s \in S
  <2>1. s \in upTo(s)
    BY DEF Step
  <2>2. rank(s) # 0
    BY <1>2, <2>1, FS_EmptySet
  <2> QED
    BY <1>1, <1>2, <2>2
<1>4. ASSUME NEW s \in S, NEW t \in S, s < t PROVE rank(s) < rank(t)
  <2>0. S \subseteq Int /\ s \in Int /\ t \in Int
    BY ConstantsOK DEF ConstantsOK, Step
  <2>1. upTo(s) \in SUBSET upTo(t) /\ t \in upTo(t) /\ t \notin upTo(s)
    <3>1. \A u \in upTo(s) : u \in upTo(t)
      BY <1>4, <2>0
    <3>2. t \in upTo(t)
      BY <2>0
    <3>3. t \notin upTo(s)
      BY <1>4, <2>0
    <3> HIDE DEF upTo
    <3> QED
      BY <3>1, <3>2, <3>3
  <2>2. rank(s) <= rank(t) /\ (rank(t) = rank(s) => upTo(t) = upTo(s))
    BY <1>2, <2>1, FS_Subset
  <2> QED
    BY <1>2, <2>1, <2>2
<1>5. \A s, t \in S : rank(s) = rank(t) => s = t
  <2> TAKE s, t \in S
  <2>1. s < t \/ t < s \/ s = t
    BY ConstantsOK DEF ConstantsOK, Step
  <2>2. rank(s) \in Nat /\ rank(t) \in Nat
    BY <1>2
  <2> QED
    BY <1>4, <2>1, <2>2
<1>6. \A i \in 1 .. Cardinality(S) : \E s \in S : rank(s) = i
  <2>1. f \in Injection(S, 1 .. Cardinality(S))
    BY <1>3, <1>5 DEF Injection, IsInjective
  <2>2. IsFiniteSet(1 .. Cardinality(S)) /\ Cardinality(1 .. Cardinality(S)) = Cardinality(S)
    BY <1>1, FS_Interval
  <2>3. f \in Surjection(S, 1 .. Cardinality(S))
    BY <2>1, <2>2, FS_Injection
  <2> QED
    BY <2>3 DEF Surjection
<1> QED
  BY <1>1, <1>3, <1>5, <1>6

-----------------------------------------------------------------------------
(***************************************************************************)
(* What a step does to the rows of others.                                 *)
(***************************************************************************)

\* Rows are kept, deleted for good or given a higher version; the step of a leaf
\* or an identity is for good.
Grows ==
  /\ trunk' = trunk \/ trunk'.ver > trunk.ver
  /\ \A l \in DOMAIN leaf :
       l \in DOMAIN leaf' /\ leaf'[l].step = leaf[l].step /\ leaf'[l].target = leaf[l].target
  /\ \A i \in DOMAIN install :
       /\ i \in DOMAIN install'
       /\ install'[i] # Gone => /\ install[i] # Gone
                                /\ install'[i] = install[i] \/ install'[i].ver > install[i].ver
  /\ \A d \in DOMAIN identity : d \in DOMAIN identity' /\ identity'[d].step = identity[d].step

OnlyOf(r) == \A s \in Req \ {r} : pc'[s] = pc[s] /\ call'[s] = call[s] /\ mem'[s] = mem[s]

LEMMA MemoryTypes ==
    ASSUME TypeOK, NEW r \in Req
    PROVE  /\ mem[r] \in Memory /\ mem[r].trunk \in Trunk /\ mem[r].old \in Install \cup {Gone}
           /\ mem[r].trunk.ver \in Nat /\ mem[r].trunk.target \in Nat /\ mem[r].id \in Nat
           /\ mem[r].trunk.child \in [Step -> Nat]
           /\ mem[r].todo \subseteq Step /\ mem[r].got \in [Step -> Leaf]
           /\ mem[r].state \in {"none", "creating", "active"}
           /\ mem[r].op \in {"creating", "updating"}
           /\ mem[r].old # Gone => mem[r].old \in Install /\ mem[r].old.ver \in Nat
                                   /\ mem[r].old.data \in [Step -> Nat]
<1>1. mem[r] \in Memory
  BY DEF TypeOK
<1>2. mem[r].trunk \in Trunk /\ mem[r].old \in Install \cup {Gone} /\ mem[r].id \in Nat
      /\ mem[r].todo \subseteq Step /\ mem[r].got \in [Step -> Leaf]
      /\ mem[r].state \in {"none", "creating", "active"} /\ mem[r].op \in {"creating", "updating"}
  BY <1>1 DEF Memory
<1> QED
  BY <1>1, <1>2 DEF Trunk, Install, Data

LEMMA RowTypes ==
    ASSUME TypeOK
    PROVE  /\ trunk.ver \in Nat /\ trunk.child \in [Step -> Nat]
           /\ trunk.target \in Nat /\ trunk.output \in Nat
           /\ DOMAIN leaf = 1 .. Len(leaf) /\ Len(leaf) \in Nat
           /\ \A l \in DOMAIN leaf : /\ leaf[l] \in Leaf /\ leaf[l].ver \in Nat /\ leaf[l].step \in Step
                                     /\ leaf[l].output \in Output /\ leaf[l].target \in Nat
           /\ DOMAIN install = 1 .. Len(install) /\ Len(install) \in Nat
           /\ \A i \in DOMAIN install : install[i] # Gone =>
                /\ install[i] \in Install /\ install[i].ver \in Nat
                /\ install[i].data \in [Step -> Nat]
           /\ DOMAIN identity = 1 .. Len(identity) /\ Len(identity) \in Nat
           /\ \A d \in DOMAIN identity : /\ identity[d] \in Identity /\ identity[d].step \in Step
                                         /\ identity[d].output \in Output
<1>1. trunk.ver \in Nat /\ trunk.child \in [Step -> Nat] /\ trunk.target \in Nat /\ trunk.output \in Nat
  BY DEF TypeOK, Trunk
<1>2. /\ DOMAIN leaf = 1 .. Len(leaf) /\ Len(leaf) \in Nat
      /\ \A l \in DOMAIN leaf : leaf[l] \in Leaf
  BY DEF TypeOK
<1>3. /\ DOMAIN install = 1 .. Len(install) /\ Len(install) \in Nat
      /\ \A i \in DOMAIN install : install[i] # Gone => install[i] \in Install
  BY DEF TypeOK
<1>4. /\ DOMAIN identity = 1 .. Len(identity) /\ Len(identity) \in Nat
      /\ \A d \in DOMAIN identity : identity[d] \in Identity
  BY DEF TypeOK
<1>5. \A l \in DOMAIN leaf : /\ leaf[l].ver \in Nat /\ leaf[l].step \in Step
                             /\ leaf[l].output \in Output /\ leaf[l].target \in Nat
  BY <1>2 DEF Leaf
<1>6. \A i \in DOMAIN install : install[i] # Gone =>
        install[i].ver \in Nat /\ install[i].data \in [Step -> Nat]
  BY <1>3 DEF Install, Data
<1>7. \A d \in DOMAIN identity : identity[d].step \in Step /\ identity[d].output \in Output
  BY <1>4 DEF Identity
<1> QED
  BY <1>1, <1>2, <1>3, <1>4, <1>5, <1>6, <1>7

\* What holds of a request goes on holding while others write.
LEMMA Frame ==
    ASSUME IInv, Grows, NEW r \in Req, trunk'.ver \in Nat,
           \A i \in DOMAIN install' : install'[i] # Gone => install'[i].ver \in Nat,
           pc'[r] = pc[r], call'[r] = call[r], mem'[r] = mem[r]
    PROVE  OfRequest(r)'
<1>1. TypeOK /\ OfRequest(r)
  BY DEF IInv, Control
<1>2. Asked(r)'
  BY <1>1 DEF OfRequest, Asked, Grows
<1>3. TrunkRead(r)'
  <2>1. mem[r].trunk.ver < trunk'.ver \/ mem[r].trunk = trunk'
    BY <1>1, MemoryTypes, RowTypes DEF OfRequest, TrunkRead, Grows
  <2>2. Children(mem[r].trunk.child)'
    BY <1>1 DEF OfRequest, TrunkRead, Children, Grows
  <2> QED
    BY <2>1, <2>2 DEF TrunkRead, Children
<1>4. Committing(r)'
  BY <1>1 DEF OfRequest, Committing, Grows
<1>5. \A d : \A s : Own(d, s) => Own(d, s)'
  BY DEF Own, Grows
<1>6. LeavesRead(r)'
  BY <1>1, <1>5 DEF OfRequest, LeavesRead, Own, Grows
<1>7. OldRead(r)'
  <2>1. mem[r].old # Gone => OwnData(mem[r].old)'
    BY <1>1, <1>5 DEF OfRequest, OldRead, OwnData, Own
  <2>2. pc[r] = "fail" /\ There(mem[r].id)' =>
            mem[r].old.ver < install'[mem[r].id].ver \/ mem[r].old = install'[mem[r].id]
    <3> SUFFICES ASSUME pc[r] = "fail", There(mem[r].id)'
                 PROVE  mem[r].old.ver < install'[mem[r].id].ver \/ mem[r].old = install'[mem[r].id]
      OBVIOUS
    <3>1. mem[r].id \in DOMAIN install
      BY <1>1 DEF OfRequest, Committing, Background
    <3>2. There(mem[r].id) /\ (\/ install'[mem[r].id] = install[mem[r].id]
                               \/ install'[mem[r].id].ver > install[mem[r].id].ver)
      BY <3>1 DEF There, Grows
    <3>3. mem[r].old # Gone /\ (\/ mem[r].old.ver < install[mem[r].id].ver
                                \/ mem[r].old = install[mem[r].id])
      BY <1>1, <3>2 DEF OfRequest, OldRead
    <3>4. mem[r].old.ver \in Nat /\ install[mem[r].id].ver \in Nat /\ install'[mem[r].id].ver \in Nat
      BY <1>1, <3>1, <3>2, <3>3, MemoryTypes, RowTypes DEF There
    <3> QED
      BY <3>2, <3>3, <3>4
  <2> QED
    BY <1>1, <2>1, <2>2 DEF OfRequest, OldRead, OwnData, There, Own
<1> QED
  BY <1>2, <1>3, <1>4, <1>6, <1>7 DEF OfRequest

LEMMA ControlKept ==
    ASSUME IInv, TypeOK', Grows, NEW r \in Req, OnlyOf(r), OfRequest(r)'
    PROVE  Control'
<1>1. /\ trunk'.ver \in Nat
      /\ \A i \in DOMAIN install' : install'[i] # Gone => install'[i].ver \in Nat
  <2>1. trunk' \in Trunk /\ install' \in Seq(Install \cup {Gone})
    BY DEF TypeOK
  <2>2. \A i \in DOMAIN install' : install'[i] \in Install \cup {Gone}
    BY <2>1
  <2> QED
    BY <2>1, <2>2 DEF Trunk, Install
<1>2. ASSUME NEW s \in Req, s # r PROVE OfRequest(s)'
  BY <1>1, <1>2, Frame DEF OnlyOf
<1> QED
  BY <1>2 DEF Control

\* A request goes on owing the installs it owes, or pays.
LEMMA OwedKept ==
    ASSUME IInv, NEW r \in Req, OnlyOf(r), edited \subseteq edited',
           \A i \in DOMAIN install' :
             There(i)' /\ i \notin edited' /\ install'[i].status = "processing" =>
               \/ Owes(r, i)'
               \/ /\ i \in DOMAIN install /\ install'[i] = install[i]
                  /\ ~ Owes(r, i)
    PROVE  Owed'
<1> SUFFICES ASSUME NEW i \in DOMAIN install', There(i)', i \notin edited',
                    install'[i].status = "processing", ~ Owes(r, i)'
             PROVE  \E s \in Req : Owes(s, i)'
  BY DEF Owed
<1>1. i \in DOMAIN install /\ install'[i] = install[i] /\ ~ Owes(r, i)
  OBVIOUS
<1>2. PICK s \in Req : Owes(s, i)
  BY <1>1 DEF IInv, Owed, There
<1>3. s # r
  BY <1>1, <1>2
<1>4. Owes(s, i)'
  BY <1>1, <1>2, <1>3 DEF Owes, OnlyOf
<1> QED
  BY <1>4

\* A step that writes no row.
LEMMA QuietStep ==
    ASSUME IInv, NEW r \in Req, UNCHANGED <<tables, edited>>, OnlyOf(r), TypeOK', OfRequest(r)',
           \A i \in DOMAIN install : There(i) /\ Owes(r, i) => Owes(r, i)'
    PROVE  IInv'
<1>1. trunk' = trunk /\ leaf' = leaf /\ install' = install /\ identity' = identity
      /\ edited' = edited
  BY DEF tables
<1>2. Control'
  BY <1>1, ControlKept DEF Grows
<1>3. Owed'
  BY <1>1, OwedKept DEF There
<1>4. OneLeafPerStep' /\ Known' /\ CommittedWhole' /\ Named' /\ OutputIsCommitted'
  BY <1>1 DEF IInv, OneLeafPerStep, Known, OwnData, Own, CommittedWhole, Named, OutputIsCommitted, There
<1> QED
  BY <1>2, <1>3, <1>4 DEF IInv

-----------------------------------------------------------------------------
(***************************************************************************)
(* Steps that write no row.                                                *)
(***************************************************************************)

\* A request is made.
LEMMA BeginStep ==
    ASSUME IInv, NEW r \in Req, NEW c \in Call,
           Begin(r, c, "parent"), UNCHANGED <<tables, mem, faults, edited>>,
           \/ c.kind = "start"
           \/ c.kind = "finish" /\ c.arg \in DOMAIN leaf /\ leaf[c.arg].step < N
    PROVE  IInv'
<1>1. TypeOK /\ OfRequest(r) /\ pc[r] = "idle"
  BY DEF IInv, Control, Begin
<1>2. /\ pc' = [pc EXCEPT ![r] = "parent"] /\ call' = [call EXCEPT ![r] = c]
      /\ pc'[r] = "parent" /\ call'[r] = c /\ mem'[r] = mem[r]
  BY <1>1 DEF Begin, Goto, TypeOK
<1>3. TypeOK'
  BY <1>1, <1>2 DEF TypeOK, Working, tables
<1>4. OnlyOf(r)
  BY <1>1, <1>2 DEF OnlyOf, TypeOK
<1>5. OfRequest(r)'
  BY <1>1, <1>2 DEF OfRequest, Asked, TrunkRead, Children, Committing, LeavesRead, OldRead, OwnData, Own,
                    There, Answering, Background, tables
<1>6. \A i : ~ Owes(r, i)
  BY <1>1 DEF Owes, Background
<1> QED
  BY <1>3, <1>4, <1>5, <1>6, QuietStep

LEMMA StartStep ==
    ASSUME IInv, NEW r \in Req, StartSession(r) PROVE IInv'
<1> DEFINE c == [kind |-> "start", arg |-> 0, output |-> NoOutput]
<1>1. c \in Call /\ c.kind = "start"
  BY DEF Call, Kind, Output
<1>2. Begin(r, c, "parent") /\ UNCHANGED <<tables, mem, faults, edited>>
  BY DEF StartSession
<1> QED
  BY <1>1, <1>2, BeginStep

LEMMA FinishStep ==
    ASSUME IInv, NEW r \in Req, NEW l \in DOMAIN leaf, FinishSession(r, l) PROVE IInv'
<1> DEFINE c == [kind |-> "finish", arg |-> l, output |-> NoOutput]
<1>1. c \in Call /\ c.kind = "finish" /\ c.arg = l
  BY RowTypes DEF Call, Kind, Output, IInv
<1>2. /\ Begin(r, c, "parent") /\ UNCHANGED <<tables, mem, faults, edited>>
      /\ leaf[l].step < N
  BY DEF FinishSession
<1> HIDE DEF c
<1> QED
  BY <1>1, <1>2, BeginStep

\* Only r moves, to where with m in memory.
Moves(r, where, m) ==
  /\ pc' = [pc EXCEPT ![r] = where]
  /\ mem' = [mem EXCEPT ![r] = m]
  /\ call' = call
  /\ faults' \in 0 .. MaxFaults

LEMMA MoveTypes ==
    ASSUME TypeOK, NEW r \in Req, NEW where \in Ended \cup Working, NEW m \in Memory, Moves(r, where, m)
    PROVE  /\ OnlyOf(r) /\ pc'[r] = where /\ mem'[r] = m /\ call'[r] = call[r]
           /\ UNCHANGED <<tables, edited>> => TypeOK'
BY DEF TypeOK, Moves, OnlyOf, tables

LEMMA ReadParentStep ==
    ASSUME IInv, NEW r \in Req, ReadParent(r) PROVE IInv'
<1> DEFINE m == [mem[r] EXCEPT !.trunk = trunk]
           w == IF trunk.target = 0 THEN "leaf" ELSE "install"
<1>1. TypeOK /\ OfRequest(r) /\ pc[r] = "parent" /\ UNCHANGED <<tables, edited>>
  BY DEF IInv, Control, ReadParent
<1>2. /\ m \in Memory /\ m.trunk = trunk /\ m.old = mem[r].old
  BY <1>1, MemoryTypes DEF Memory, TypeOK
<1>3. w \in Ended \cup Working
  BY DEF Working
<1>4. Moves(r, w, m)
  BY <1>1 DEF ReadParent, Read, Goto, Moves, TypeOK
<1> HIDE DEF m
<1>5. TypeOK' /\ OnlyOf(r) /\ pc'[r] = w /\ mem'[r] = m /\ call'[r] = call[r]
  BY <1>1, <1>2, <1>3, <1>4, MoveTypes
<1>6. OfRequest(r)'
  BY <1>1, <1>2, <1>5 DEF IInv, OneLeafPerStep, OfRequest, Asked, TrunkRead, Children, Committing, LeavesRead,
     OldRead, OwnData, Own, There, Answering, Background, tables
<1>7. \A i : ~ Owes(r, i)
  BY <1>1 DEF Owes, Background
<1> QED
  BY <1>1, <1>5, <1>6, <1>7, QuietStep

LEMMA ReadInstallStep ==
    ASSUME IInv, NEW r \in Req, ReadInstall(r) PROVE IInv'
<1> DEFINE i == mem[r].trunk.target
           m == IF There(i) THEN [mem[r] EXCEPT !.old = install[i]] ELSE mem[r]
           w == IF There(i) THEN "leaf" ELSE "refused"
<1>1. TypeOK /\ OfRequest(r) /\ pc[r] = "install" /\ UNCHANGED <<tables, edited>>
  BY DEF IInv, Control, ReadInstall
<1>2. There(i) => install[i] \in Install /\ install[i] # Gone /\ OwnData(install[i])
  BY <1>1, RowTypes DEF There, IInv, Known
<1>3. /\ m \in Memory /\ m.trunk = mem[r].trunk
      /\ m.old = IF There(i) THEN install[i] ELSE mem[r].old
  BY <1>1, <1>2, MemoryTypes DEF Memory
<1>4. w \in Ended \cup Working
  BY DEF Working, Ended
<1>5. Moves(r, w, m)
  BY <1>1 DEF ReadInstall, Read, Goto, Moves, TypeOK
<1> HIDE DEF m
<1>6. TypeOK' /\ OnlyOf(r) /\ pc'[r] = w /\ mem'[r] = m /\ call'[r] = call[r]
  BY <1>1, <1>3, <1>4, <1>5, MoveTypes
<1>7. OfRequest(r)'
  <2>1. Asked(r)' /\ TrunkRead(r)'
    BY <1>1, <1>3, <1>6 DEF OfRequest, Asked, TrunkRead, Children, tables
  <2>2. Committing(r)' /\ LeavesRead(r)'
    BY <1>6 DEF Committing, LeavesRead, Answering, Background
  <2>3. OldRead(r)'
    BY <1>1, <1>2, <1>3, <1>6 DEF OfRequest, OldRead, OwnData, Own, tables
  <2> QED
    BY <2>1, <2>2, <2>3 DEF OfRequest
<1>8. \A j : ~ Owes(r, j)
  BY <1>1 DEF Owes, Background
<1> QED
  BY <1>1, <1>6, <1>7, <1>8, QuietStep

LEMMA LeafNotCreatedStep ==
    ASSUME IInv, NEW r \in Req, LeafNotCreated(r) PROVE IInv'
<1>1. TypeOK /\ OfRequest(r) /\ pc[r] = "leaf" /\ UNCHANGED <<tables, edited>>
  BY DEF IInv, Control, LeafNotCreated
<1>2. PICK w \in {"done", "refused"} : pc' = [pc EXCEPT ![r] = w]
  BY DEF LeafNotCreated, Goto
<1>3. Moves(r, w, mem[r]) /\ w \in Ended \cup Working
  BY <1>1, <1>2 DEF LeafNotCreated, Moves, TypeOK, Ended
<1>4. TypeOK' /\ OnlyOf(r) /\ pc'[r] = w /\ mem'[r] = mem[r] /\ call'[r] = call[r]
  BY <1>1, <1>3, MemoryTypes, MoveTypes
<1>5. OfRequest(r)'
  BY <1>1, <1>4 DEF OfRequest, Asked, TrunkRead, Children, Committing, LeavesRead,
     OldRead, OwnData, Own, Answering, Background, tables
<1>6. \A i : ~ Owes(r, i)
  BY <1>1 DEF Owes, Background
<1> QED
  BY <1>1, <1>4, <1>5, <1>6, QuietStep

LEMMA PutSessionStep ==
    ASSUME IInv, NEW r \in Req, NEW l \in DOMAIN leaf, NEW out \in {Good, Failed}, PutSession(r, l, out)
    PROVE  IInv'
<1> DEFINE c == [kind |-> "put", arg |-> l, output |-> out]
           m == [mem[r] EXCEPT !.got[leaf[l].step] = leaf[l]]
<1>1. TypeOK /\ OfRequest(r) /\ pc[r] = "idle" /\ UNCHANGED <<tables, edited>>
  BY DEF IInv, Control, PutSession, Begin
<1>2. c \in Call /\ c.arg = l
  BY <1>1, RowTypes DEF Call, Kind, Output
<1>3. m \in Memory /\ m.trunk = mem[r].trunk /\ m.old = mem[r].old
  BY <1>1, RowTypes, MemoryTypes DEF Memory
<1>4. /\ pc' = [pc EXCEPT ![r] = "put"] /\ mem' = [mem EXCEPT ![r] = m]
      /\ call' = [call EXCEPT ![r] = c] /\ faults' = faults
  BY DEF PutSession, Begin, Goto
<1> HIDE DEF m, c
<1>5. TypeOK' /\ OnlyOf(r) /\ pc'[r] = "put" /\ mem'[r] = m /\ call'[r] = c
  BY <1>1, <1>2, <1>3, <1>4 DEF TypeOK, OnlyOf, tables, Working
<1>6. NoCall # c
  BY <1>2, ConstantsOK DEF ConstantsOK
<1>7. OfRequest(r)'
  <2>1. Asked(r)' /\ TrunkRead(r)'
    BY <1>1, <1>2, <1>3, <1>5, <1>6 DEF OfRequest, Asked, TrunkRead, Children, tables
  <2>2. Committing(r)' /\ LeavesRead(r)'
    BY <1>5 DEF Committing, LeavesRead, Answering, Background
  <2>3. OldRead(r)'
    BY <1>1, <1>3, <1>5 DEF OfRequest, OldRead, OwnData, Own, tables
  <2> QED
    BY <2>1, <2>2, <2>3 DEF OfRequest
<1>8. \A i : ~ Owes(r, i)
  BY <1>1 DEF Owes, Background
<1> QED
  BY <1>1, <1>5, <1>7, <1>8, QuietStep

LEMMA CommitSessionStep ==
    ASSUME IInv, NEW r \in Req, CommitSession(r) PROVE IInv'
<1> DEFINE c == [kind |-> "commit", arg |-> 0, output |-> NoOutput]
           m == [mem[r] EXCEPT !.trunk = trunk, !.todo = Step]
<1>1. TypeOK /\ OfRequest(r) /\ pc[r] = "idle" /\ UNCHANGED <<tables, edited>>
  BY DEF IInv, Control, CommitSession, Begin
<1>2. c \in Call
  BY DEF Call, Kind, Output
<1>3. m \in Memory /\ m.trunk = trunk /\ m.old = mem[r].old
  BY <1>1, MemoryTypes DEF Memory, TypeOK
<1>4. /\ pc' = [pc EXCEPT ![r] = "check"] /\ mem' = [mem EXCEPT ![r] = m]
      /\ call' = [call EXCEPT ![r] = c] /\ faults' = faults
      /\ \A s \in Step : trunk.child[s] # 0
  BY <1>1 DEF CommitSession, Begin, Goto, TypeOK
<1> HIDE DEF m, c
<1>5. TypeOK' /\ OnlyOf(r) /\ pc'[r] = "check" /\ mem'[r] = m /\ call'[r] = c
  BY <1>1, <1>2, <1>3, <1>4 DEF TypeOK, OnlyOf, tables, Working, Answering
<1>6. OfRequest(r)'
  <2>1. Asked(r)'
    BY <1>5 DEF Asked
  <2>2. TrunkRead(r)'
    BY <1>1, <1>3, <1>5 DEF IInv, OneLeafPerStep, TrunkRead, Children, tables
  <2>3. Committing(r)' /\ LeavesRead(r)'
    BY <1>3, <1>4, <1>5 DEF Committing, LeavesRead, Answering, Background
  <2>4. OldRead(r)'
    BY <1>1, <1>3, <1>5 DEF OfRequest, OldRead, OwnData, Own, tables
  <2> QED
    BY <2>1, <2>2, <2>3, <2>4 DEF OfRequest
<1>7. \A i : ~ Owes(r, i)
  BY <1>1 DEF Owes, Background
<1> QED
  BY <1>1, <1>5, <1>6, <1>7, QuietStep

LEMMA CheckLeafStep ==
    ASSUME IInv, NEW r \in Req, CheckLeaf(r) PROVE IInv'
<1>1. TypeOK /\ OfRequest(r) /\ pc[r] = "check" /\ UNCHANGED <<tables, edited>>
  BY DEF IInv, Control, CheckLeaf
<1>2. PICK s, w : /\ w \in {"refused", "check", "create", "mark"}
                  /\ w = "create" => mem[r].trunk.target = 0
                  /\ pc' = [pc EXCEPT ![r] = w]
                  /\ mem' = [mem EXCEPT ![r].todo = mem[r].todo \ {s}]
  BY <1>1 DEF CheckLeaf, Goto, Read
<1> DEFINE m == [mem[r] EXCEPT !.todo = mem[r].todo \ {s}]
<1>3. m \in Memory /\ m.trunk = mem[r].trunk /\ m.old = mem[r].old
  BY <1>1, MemoryTypes DEF Memory
<1>4. Moves(r, w, m) /\ w \in Ended \cup Working
  BY <1>1, <1>2 DEF CheckLeaf, Moves, TypeOK, Ended, Working, Answering
<1> HIDE DEF m
<1>5. TypeOK' /\ OnlyOf(r) /\ pc'[r] = w /\ mem'[r] = m /\ call'[r] = call[r]
  BY <1>1, <1>3, <1>4, MoveTypes
<1>6. OfRequest(r)'
  <2>1. Asked(r)' /\ TrunkRead(r)'
    BY <1>1, <1>2, <1>3, <1>5 DEF OfRequest, Asked, TrunkRead, Children, tables
  <2>2. Committing(r)' /\ LeavesRead(r)'
    BY <1>1, <1>2, <1>3, <1>5 DEF OfRequest, Committing, LeavesRead, Answering, Background
  <2>3. OldRead(r)'
    BY <1>1, <1>2, <1>3, <1>5 DEF OfRequest, OldRead, OwnData, Own, tables
  <2> QED
    BY <2>1, <2>2, <2>3 DEF OfRequest
<1>7. \A i : ~ Owes(r, i)
  BY <1>1 DEF Owes, Background
<1> QED
  BY <1>1, <1>5, <1>6, <1>7, QuietStep

\* A step that changes the place of a request and nothing else.
LEMMA JumpStep ==
    ASSUME IInv, NEW r \in Req, NEW w \in {"done", "unnamed", "lost", "broken"},
           pc' = [pc EXCEPT ![r] = w], UNCHANGED <<tables, call, mem, edited>>,
           faults' \in 0 .. MaxFaults, pc[r] \in Working,
           w = "broken" => pc[r] \in Background,
           w = "done" => \A i : There(i) => ~ Owes(r, i)
    PROVE  IInv'
<1>1. TypeOK /\ OfRequest(r)
  BY DEF IInv, Control
<1>2. Moves(r, w, mem[r]) /\ w \in Ended \cup Working
  BY <1>1 DEF Moves, TypeOK, Ended, Working, Background
<1>3. TypeOK' /\ OnlyOf(r) /\ pc'[r] = w /\ mem'[r] = mem[r] /\ call'[r] = call[r]
  BY <1>1, <1>2, MemoryTypes, MoveTypes
<1>4. OfRequest(r)'
  <2>1. Asked(r)' /\ TrunkRead(r)'
    BY <1>1, <1>3 DEF OfRequest, Asked, TrunkRead, Children, tables
  <2>2. Committing(r)' /\ LeavesRead(r)'
    BY <1>1, <1>3 DEF OfRequest, Committing, LeavesRead, Answering, Background, tables
  <2>3. OldRead(r)'
    BY <1>1, <1>3 DEF OfRequest, OldRead, OwnData, Own, tables
  <2> QED
    BY <2>1, <2>2, <2>3 DEF OfRequest
<1>5. \A i \in DOMAIN install : There(i) /\ Owes(r, i) => Owes(r, i)'
  BY <1>3 DEF Owes, Background
<1> QED
  BY <1>3, <1>4, <1>5, QuietStep

LEMMA NameConflictStep ==
    ASSUME IInv, NEW r \in Req, NameConflict(r) PROVE IInv'
BY JumpStep DEF NameConflict, Goto, Working, Answering, IInv, TypeOK

LEMMA RollbackStep ==
    ASSUME IInv, NEW r \in Req, Rollback(r) PROVE IInv'
BY JumpStep DEF Rollback, Goto, Working, Background, IInv, TypeOK

LEMMA CrashStep ==
    ASSUME IInv, NEW r \in Req, Crash(r) PROVE IInv'
<1>1. faults' \in 0 .. MaxFaults
  BY ConstantsOK DEF ConstantsOK, Crash, Fault, IInv, TypeOK
<1> QED
  BY <1>1, JumpStep DEF Crash, Goto

\* The last leaf read decides: no error is in any.
LEMMA PersistLeafStep ==
    ASSUME IInv, NEW r \in Req, NEW s \in Step, PersistLeaf(r, s) PROVE IInv'
<1> DEFINE l == mem[r].trunk.child[s]
           got == [mem[r].got EXCEPT ![s] = leaf[l]]
           m == [mem[r] EXCEPT !.todo = mem[r].todo \ {s}, !.got = got]
           w == IF mem[r].todo # {s} THEN "leaves"
                ELSE IF \E t \in Step : got[t].output = Failed THEN "broken" ELSE "gather"
<1>1. TypeOK /\ OfRequest(r) /\ pc[r] = "leaves" /\ s \in mem[r].todo /\ UNCHANGED <<tables, edited>>
  BY DEF IInv, Control, PersistLeaf
<1>2. l \in DOMAIN leaf /\ leaf[l] \in Leaf /\ leaf[l].step = s
      /\ (s \in Connector => Own(leaf[l].target, s))
  <2>1. l # 0
    BY <1>1 DEF OfRequest, Committing, Background
  <2>2. l \in DOMAIN leaf /\ leaf[l].step = s
    BY <1>1, <2>1 DEF OfRequest, TrunkRead, Children
  <2>3. s \in Connector => Own(leaf[l].target, leaf[l].step)
    BY <2>2 DEF IInv, Known
  <2> QED
    BY <1>1, <2>2, <2>3, RowTypes
<1>3. got \in [Step -> Leaf]
  BY <1>1, <1>2, MemoryTypes
<1>4. m \in Memory /\ m.trunk = mem[r].trunk /\ m.old = mem[r].old /\ m.id = mem[r].id
      /\ m.todo = mem[r].todo \ {s} /\ m.got = got
  BY <1>1, <1>3, MemoryTypes DEF Memory
<1>5. Moves(r, w, m)
  BY <1>1 DEF PersistLeaf, Goto, Moves, TypeOK
<1>6. w \in {"leaves", "broken", "gather"}
  OBVIOUS
<1>7. w = "gather" => m.todo = {} /\ \A t \in Step : got[t].output # Failed
  BY <1>4
<1> HIDE DEF m, w
<1>8. TypeOK' /\ OnlyOf(r) /\ pc'[r] = w /\ mem'[r] = m /\ call'[r] = call[r]
  BY <1>1, <1>4, <1>5, <1>6, MoveTypes DEF Working, Background
<1>9. \A c \in Connector \ m.todo : Own(got[c].target, c)
  <2> TAKE c \in Connector \ m.todo
  <2>1. CASE c = s
    BY <1>1, <1>2, <2>1, MemoryTypes
  <2>2. CASE c # s
    <3>1. Own(mem[r].got[c].target, c)
      BY <1>1, <1>4, <2>2 DEF OfRequest, LeavesRead
    <3> QED
      BY <2>2, <3>1
  <2> QED
    BY <2>1, <2>2
<1> HIDE DEF got
<1>10. OfRequest(r)'
  <2>1. Asked(r)' /\ TrunkRead(r)'
    BY <1>1, <1>4, <1>6, <1>8 DEF OfRequest, Asked, TrunkRead, Children, tables
  <2>2. Committing(r)'
    BY <1>1, <1>4, <1>6, <1>8 DEF OfRequest, Committing, Answering, Background, tables
  <2>3. LeavesRead(r)'
    BY <1>1, <1>4, <1>6, <1>8, <1>9, <1>7 DEF LeavesRead, Own, tables
  <2>4. OldRead(r)'
    BY <1>1, <1>4, <1>6, <1>8 DEF OfRequest, OldRead, OwnData, Own, tables
  <2> QED
    BY <2>1, <2>2, <2>3, <2>4 DEF OfRequest
<1>11. \A i : Owes(r, i) => Owes(r, i)'
  BY <1>4, <1>6, <1>8 DEF Owes, Background
<1> QED
  BY <1>1, <1>8, <1>10, <1>11, QuietStep

LEMMA GatherInstallStep ==
    ASSUME IInv, NEW r \in Req, GatherInstall(r) PROVE IInv'
<1> DEFINE m == [mem[r] EXCEPT !.state = "active"]
           w == IF There(mem[r].id) THEN "persist" ELSE "broken"
<1>1. TypeOK /\ OfRequest(r) /\ pc[r] = "gather" /\ UNCHANGED <<tables, edited>>
  BY DEF IInv, Control, GatherInstall
<1>2. m \in Memory /\ m.trunk = mem[r].trunk /\ m.old = mem[r].old /\ m.id = mem[r].id
      /\ m.got = mem[r].got
  BY <1>1, MemoryTypes DEF Memory
<1>3. Moves(r, w, m)
  BY <1>1 DEF GatherInstall, Read, Goto, Moves, TypeOK
<1>4. w \in Ended \cup Working
  BY DEF Working, Background
<1> HIDE DEF m
<1>5. TypeOK' /\ OnlyOf(r) /\ pc'[r] = w /\ mem'[r] = m /\ call'[r] = call[r]
  BY <1>1, <1>2, <1>3, <1>4, MoveTypes
<1>6. OfRequest(r)'
  <2>1. Asked(r)' /\ TrunkRead(r)'
    BY <1>1, <1>2, <1>5 DEF OfRequest, Asked, TrunkRead, Children, tables
  <2>2. Committing(r)'
    BY <1>1, <1>2, <1>5 DEF OfRequest, Committing, Answering, Background, tables
  <2>3. LeavesRead(r)'
    BY <1>1, <1>2, <1>5 DEF OfRequest, LeavesRead, Own, tables
  <2>4. OldRead(r)'
    BY <1>1, <1>2, <1>5 DEF OfRequest, OldRead, OwnData, Own, tables
  <2> QED
    BY <2>1, <2>2, <2>3, <2>4 DEF OfRequest
<1>7. \A i : Owes(r, i) => Owes(r, i)'
  BY <1>2, <1>5 DEF Owes, Background
<1> QED
  BY <1>1, <1>5, <1>6, <1>7, QuietStep

\* The catch block holds the row that it read.
LEMMA ReadBrokenStep ==
    ASSUME IInv, NEW r \in Req, ReadBroken(r) PROVE IInv'
<1> DEFINE i == mem[r].id
           m == IF There(i) THEN [mem[r] EXCEPT !.old = install[i]] ELSE mem[r]
           w == IF There(i) THEN "fail" ELSE "done"
<1>1. TypeOK /\ OfRequest(r) /\ pc[r] = "broken" /\ UNCHANGED <<tables, edited>>
  BY DEF IInv, Control, ReadBroken
<1>2. There(i) => install[i] \in Install /\ install[i] # Gone /\ OwnData(install[i])
  BY <1>1, RowTypes DEF There, IInv, Known
<1>3. m \in Memory /\ m.trunk = mem[r].trunk /\ m.id = i
      /\ m.old = IF There(i) THEN install[i] ELSE mem[r].old
  BY <1>1, <1>2, MemoryTypes DEF Memory
<1>4. Moves(r, w, m)
  BY <1>1 DEF ReadBroken, Read, Goto, Moves, TypeOK
<1>5. w \in Ended \cup Working
  BY DEF Working, Background, Ended
<1> HIDE DEF m
<1>6. TypeOK' /\ OnlyOf(r) /\ pc'[r] = w /\ mem'[r] = m /\ call'[r] = call[r]
  BY <1>1, <1>3, <1>4, <1>5, MoveTypes
<1>7. OfRequest(r)'
  <2>1. Asked(r)' /\ TrunkRead(r)'
    BY <1>1, <1>3, <1>6 DEF OfRequest, Asked, TrunkRead, Children, tables
  <2>2. Committing(r)' /\ LeavesRead(r)'
    BY <1>1, <1>3, <1>6 DEF OfRequest, Committing, LeavesRead, Answering, Background, tables
  <2>3. OldRead(r)'
    BY <1>1, <1>2, <1>3, <1>6 DEF OfRequest, OldRead, OwnData, Own, tables
  <2> QED
    BY <2>1, <2>2, <2>3 DEF OfRequest
<1>8. \A j \in DOMAIN install : There(j) /\ Owes(r, j) => Owes(r, j)'
  BY <1>1, <1>3, <1>6 DEF Owes, Background, tables
<1> QED
  BY <1>1, <1>6, <1>7, <1>8, QuietStep

-----------------------------------------------------------------------------
(***************************************************************************)
(* Steps that write a leaf or the trunk.                                   *)
(***************************************************************************)

\* A write that found the version it read writes over what it read.
LEMMA TrunkHeld ==
    ASSUME IInv, NEW r \in Req, TrunkUnchanged(r)
    PROVE  mem[r].trunk = trunk
<1>1. trunk.ver \in Nat /\ TrunkRead(r)
  BY RowTypes DEF IInv, Control, OfRequest
<1> QED
  BY <1>1 DEF TrunkUnchanged, TrunkRead

\* The step that r creates a leaf for, and what the leaf starts from.
LEMMA NewLeaf ==
    ASSUME IInv, NEW r \in Req, pc[r] = "leaf"
    PROVE  LET t == mem[r].trunk.target
               known == IF t # 0 THEN mem[r].old.data[Target(r)] ELSE 0
           IN  /\ Target(r) \in Step /\ t \in Nat /\ known \in Nat
               /\ Target(r) \in Connector => Own(known, Target(r))
               /\ Target(r) \in Connector /\ known # 0 => identity[known].output \in Output
<1> DEFINE t == mem[r].trunk.target
           s == Target(r)
           known == IF t # 0 THEN mem[r].old.data[s] ELSE 0
<1>1. TypeOK /\ OfRequest(r)
  BY DEF IInv, Control
<1>2. s \in Step
  <2>1. \/ call[r].kind = "start"
        \/ call[r].kind = "finish" /\ leaf[call[r].arg].step \in Step /\ leaf[call[r].arg].step < N
    BY <1>1, RowTypes DEF OfRequest, Asked
  <2> QED
    BY <2>1, ConstantsOK DEF Target, Step, ConstantsOK
<1>3. t # 0 => mem[r].old # Gone
  BY <1>1 DEF OfRequest, OldRead
<1>4. t \in Nat /\ known \in Nat
  BY <1>1, <1>2, <1>3, MemoryTypes
<1>5. s \in Connector => Own(known, s)
  BY <1>1, <1>3 DEF OfRequest, OldRead, OwnData, Own
<1>6. s \in Connector /\ known # 0 => identity[known].output \in Output
  BY <1>1, <1>5, RowTypes DEF Own
<1> QED
  BY <1>2, <1>4, <1>5, <1>6

LEMMA CreateLeafStep ==
    ASSUME IInv, NEW r \in Req, CreateLeaf(r) PROVE IInv'
<1> DEFINE s == Target(r)
           t == mem[r].trunk.target
           known == IF t # 0 THEN mem[r].old.data[s] ELSE 0
           new == [ver |-> 1, step |-> s,
                   output |-> IF known = 0 THEN NoOutput
                              ELSE IF s \in Connector THEN identity[known].output ELSE Good,
                   target |-> IF s \in Connector THEN known ELSE t]
           k == Len(leaf) + 1
<1>1. /\ TypeOK /\ OfRequest(r) /\ pc[r] = "leaf"
      /\ UNCHANGED <<install, identity, call, mem, faults, edited>>
  BY DEF IInv, Control, CreateLeaf
<1>2. /\ mem[r].trunk = trunk /\ trunk.child[s] = 0
      /\ leaf' = Append(leaf, new)
      /\ trunk' = [trunk EXCEPT !.child[s] = k, !.ver = trunk.ver + 1]
      /\ pc' = [pc EXCEPT ![r] = "done"]
  BY TrunkHeld DEF CreateLeaf, Goto
<1>3. /\ s \in Step /\ new \in Leaf /\ new.step = s
      /\ s \in Connector => Own(new.target, s)
  <2>1. s \in Step /\ t \in Nat /\ known \in Nat
        /\ (s \in Connector => Own(known, s))
        /\ (s \in Connector /\ known # 0 => identity[known].output \in Output)
    BY <1>1, NewLeaf
  <2> HIDE DEF known, s, t
  <2>2. new \in Leaf
    BY <2>1 DEF Leaf, Output
  <2> QED
    BY <2>1, <2>2
<1> HIDE DEF new, s
<1>4. /\ leaf' \in Seq(Leaf) /\ k \in Nat \ {0} /\ DOMAIN leaf' = DOMAIN leaf \cup {k} /\ k \notin DOMAIN leaf
      /\ leaf'[k] = new /\ \A l \in DOMAIN leaf : leaf'[l] = leaf[l]
  BY <1>1, <1>2, <1>3, RowTypes DEF TypeOK
<1>5. /\ trunk' \in Trunk /\ trunk'.ver > trunk.ver /\ trunk'.target = trunk.target
      /\ trunk'.output = trunk.output
      /\ trunk'.child[s] = k /\ \A c \in Step \ {s} : trunk'.child[c] = trunk.child[c]
  <2> HIDE DEF k
  <2> DEFINE ch == [trunk.child EXCEPT ![s] = k]
  <2>1. trunk \in Trunk /\ trunk.child \in [Step -> Nat] /\ trunk.ver \in Nat
    BY <1>1, RowTypes DEF TypeOK
  <2>2. ch \in [Step -> Nat] /\ ch[s] = k /\ \A c \in Step \ {s} : ch[c] = trunk.child[c]
    BY <1>3, <1>4, <2>1
  <2>3. trunk' = [trunk EXCEPT !.child = ch, !.ver = trunk.ver + 1]
    BY <1>2
  <2> HIDE DEF ch
  <2> DEFINE v == trunk.ver + 1
  <2>4. v \in Nat /\ v > trunk.ver
    BY <2>1
  <2>5. trunk' = [trunk EXCEPT !.child = ch, !.ver = v]
    BY <2>3
  <2> HIDE DEF v
  <2>6. trunk'.ver = v /\ trunk'.target = trunk.target /\ trunk'.output = trunk.output
        /\ trunk'.child = ch /\ trunk' \in Trunk
    BY <2>1, <2>2, <2>4, <2>5 DEF Trunk
  <2> QED
    BY <2>1, <2>2, <2>4, <2>6
<1>6. TypeOK'
  BY <1>1, <1>2, <1>4, <1>5 DEF TypeOK, Ended
<1>7. OnlyOf(r) /\ pc'[r] = "done"
  BY <1>1, <1>2 DEF OnlyOf, TypeOK
<1>8. Grows
  BY <1>1, <1>4, <1>5 DEF Grows
<1>9. OfRequest(r)'
  <2>1. Asked(r)' /\ Committing(r)' /\ LeavesRead(r)'
    BY <1>7 DEF Asked, Committing, LeavesRead, Answering, Background
  <2>2. TrunkRead(r)'
    BY <1>1, <1>2, <1>4, <1>5 DEF OfRequest, TrunkRead, Children
  <2>3. OldRead(r)'
    BY <1>1, <1>7 DEF OfRequest, OldRead, OwnData, Own
  <2> QED
    BY <2>1, <2>2, <2>3 DEF OfRequest
<1>10. Control'
  BY <1>6, <1>7, <1>8, <1>9, ControlKept
<1>11. OneLeafPerStep'
  <2>1. \A l \in DOMAIN leaf' : trunk'.child[leaf'[l].step] = l
    <3> TAKE l \in DOMAIN leaf'
    <3>1. CASE l = k
      BY <1>3, <1>4, <1>5, <3>1
    <3>2. CASE l \in DOMAIN leaf
      <4>1. trunk.child[leaf[l].step] = l /\ leaf[l].step \in Step /\ l # 0
        BY <1>1, <3>2, RowTypes DEF IInv, OneLeafPerStep
      <4> QED
        BY <1>2, <1>4, <1>5, <3>2, <4>1
    <3> QED
      BY <1>4, <3>1, <3>2
  <2>2. \A c \in Step : trunk'.child[c] # 0 =>
           trunk'.child[c] \in DOMAIN leaf' /\ leaf'[trunk'.child[c]].step = c
    BY <1>3, <1>4, <1>5 DEF IInv, OneLeafPerStep
  <2> QED
    BY <2>1, <2>2 DEF OneLeafPerStep
<1>12. Known'
  <2>1. \A l \in DOMAIN leaf' : leaf'[l].step \in Connector => Own(leaf'[l].target, leaf'[l].step)
    BY <1>3, <1>4 DEF IInv, Known
  <2> QED
    BY <1>1, <2>1 DEF IInv, Known, OwnData, Own, There
<1>13. Owed'
  <2>1. \A i : ~ Owes(r, i)
    BY <1>1 DEF Owes, Background
  <2> QED
    BY <1>1, <1>7, <2>1, OwedKept
<1>14. CommittedWhole' /\ Named' /\ OutputIsCommitted'
  BY <1>1, <1>5 DEF IInv, CommittedWhole, Named, OutputIsCommitted, There
<1> QED
  BY <1>6, <1>10, <1>11, <1>12, <1>13, <1>14 DEF IInv

LEMMA WriteOutputStep ==
    ASSUME IInv, NEW r \in Req, WriteOutput(r) PROVE IInv'
<1> DEFINE l == call[r].arg
<1>1. /\ TypeOK /\ OfRequest(r) /\ pc[r] = "put"
      /\ UNCHANGED <<trunk, install, identity, call, mem, faults, edited>>
  BY DEF IInv, Control, WriteOutput
<1>2. call[r] \in Call /\ call[r].output \in Output /\ l \in DOMAIN leaf
  <2>1. call[r] \in Call /\ l \in DOMAIN leaf
    BY <1>1 DEF OfRequest, Asked, TypeOK
  <2> QED
    BY <2>1 DEF Call
<1>3. PICK w \in {"done", "refused"} : pc' = [pc EXCEPT ![r] = w]
  BY DEF WriteOutput, Goto
<1>4. /\ leaf' \in Seq(Leaf) /\ DOMAIN leaf' = DOMAIN leaf
      /\ \A k \in DOMAIN leaf : leaf'[k].step = leaf[k].step /\ leaf'[k].target = leaf[k].target
  <2>1. CASE leaf' = leaf
    BY <1>1, <2>1 DEF TypeOK
  <2>2. CASE leaf' = [leaf EXCEPT ![l] = [leaf[l] EXCEPT !.output = call[r].output, !.ver = leaf[l].ver + 1]]
    <3> DEFINE new == [leaf[l] EXCEPT !.output = call[r].output, !.ver = leaf[l].ver + 1]
    <3>1. new \in Leaf /\ new.step = leaf[l].step /\ new.target = leaf[l].target
      <4>1. leaf[l] \in Leaf /\ leaf[l].ver + 1 \in Nat
        BY <1>1, <1>2, RowTypes
      <4> HIDE DEF l
      <4> QED
        BY <1>2, <4>1 DEF Leaf
    <3> HIDE DEF new
    <3>2. leaf' = [leaf EXCEPT ![l] = new]
      BY <2>2 DEF new
    <3> QED
      BY <1>1, <1>2, <3>1, <3>2 DEF TypeOK
  <2> QED
    BY <2>1, <2>2 DEF WriteOutput
<1>5. TypeOK'
  BY <1>1, <1>3, <1>4 DEF TypeOK, Ended
<1>6. OnlyOf(r) /\ pc'[r] = w
  BY <1>1, <1>3 DEF OnlyOf, TypeOK
<1>7. Grows
  BY <1>1, <1>4 DEF Grows
<1>8. OfRequest(r)'
  <2>1. Asked(r)' /\ Committing(r)' /\ LeavesRead(r)'
    BY <1>6 DEF Asked, Committing, LeavesRead, Answering, Background
  <2>2. TrunkRead(r)'
    BY <1>1, <1>4 DEF OfRequest, TrunkRead, Children
  <2>3. OldRead(r)'
    BY <1>1, <1>6 DEF OfRequest, OldRead, OwnData, Own
  <2> QED
    BY <2>1, <2>2, <2>3 DEF OfRequest
<1>9. Control'
  BY <1>5, <1>6, <1>7, <1>8, ControlKept
<1>10. OneLeafPerStep' /\ Known'
  BY <1>1, <1>4 DEF IInv, OneLeafPerStep, Known, OwnData, Own, There
<1>11. Owed'
  <2>1. \A i : ~ Owes(r, i)
    BY <1>1 DEF Owes, Background
  <2> QED
    BY <1>1, <1>6, <2>1, OwedKept
<1>12. CommittedWhole' /\ Named' /\ OutputIsCommitted'
  BY <1>1 DEF IInv, CommittedWhole, Named, OutputIsCommitted, There
<1> QED
  BY <1>5, <1>9, <1>10, <1>11, <1>12 DEF IInv

-----------------------------------------------------------------------------
(***************************************************************************)
(* Steps that write an install.                                            *)
(***************************************************************************)

\* One install is written.
LEMMA InstallStep ==
    ASSUME IInv, NEW r \in Req, NEW i \in DOMAIN install',
           UNCHANGED <<trunk, leaf, identity>>, edited \subseteq edited',
           TypeOK', OnlyOf(r), OfRequest(r)', DOMAIN install \subseteq DOMAIN install',
           \A j \in DOMAIN install' \ {i} : /\ j \in DOMAIN install /\ install'[j] = install[j]
                                            /\ ~ Owes(r, j),
           i \in DOMAIN install /\ install'[i] # Gone =>
             install[i] # Gone /\ (install'[i] = install[i] \/ install'[i].ver > install[i].ver),
           install'[i] # Gone =>
             /\ OwnData(install'[i])
             /\ install'[i].status = "success" => i \in edited'
             /\ install'[i].status = "processing" => i \in edited' \/ Owes(r, i)'
             /\ trunk.output = i => install'[i].state # "creating"
    PROVE  IInv'
<1>1. Control'
  BY ControlKept DEF Grows
<1>2. Owed'
  BY OwedKept DEF There
<1>3. OneLeafPerStep' /\ Named'
  BY DEF IInv, OneLeafPerStep, Named
<1>4. Known'
  BY DEF IInv, Known, OwnData, Own, There
<1>5. CommittedWhole'
  <2> SUFFICES ASSUME NEW j \in DOMAIN install', install'[j] # Gone, j \notin edited',
                      install'[j].status = "success", NEW s \in Step
               PROVE  IF s \in Connector
                      THEN /\ install'[j].data[s] \in DOMAIN identity
                           /\ identity[install'[j].data[s]].step = s
                           /\ identity[install'[j].data[s]].output # Failed
                      ELSE install'[j].data[s] # Failed
    BY DEF CommittedWhole, There
  <2>1. j # i
    OBVIOUS
  <2>2. j \in DOMAIN install /\ install'[j] = install[j] /\ j \notin edited
    BY <2>1
  <2> QED
    BY <2>2 DEF IInv, CommittedWhole, There
<1>6. OutputIsCommitted'
  BY DEF IInv, OutputIsCommitted, There
<1> QED
  BY <1>1, <1>2, <1>3, <1>4, <1>5, <1>6 DEF IInv

LEMMA Rewritten ==
    ASSUME TypeOK, NEW i, There(i), NEW row \in Install, Rewrite(i, row)
    PROVE  /\ install' \in Seq(Install \cup {Gone}) /\ DOMAIN install' = DOMAIN install
           /\ i \in DOMAIN install /\ install'[i] # Gone /\ install[i] # Gone
           /\ \A j \in DOMAIN install \ {i} : install'[j] = install[j]
           /\ install'[i].ver > install[i].ver
           /\ install'[i].state = row.state /\ install'[i].op = row.op
           /\ install'[i].status = row.status /\ install'[i].data = row.data
<1> DEFINE v == install[i].ver + 1
           new == [row EXCEPT !.ver = v]
<1>1. i \in DOMAIN install /\ install[i] # Gone
  BY DEF There
<1>2. v \in Nat /\ v > install[i].ver
  BY <1>1, RowTypes
<1>3. install' = [install EXCEPT ![i] = new]
  BY DEF Rewrite
<1> HIDE DEF v
<1>4. /\ new \in Install /\ new.ver = v /\ new.state = row.state /\ new.op = row.op
      /\ new.status = row.status /\ new.data = row.data
  BY <1>2 DEF Install
<1>5. new # Gone
  BY <1>4, ConstantsOK DEF ConstantsOK
<1> HIDE DEF new
<1> QED
  BY <1>1, <1>2, <1>3, <1>4, <1>5 DEF TypeOK

LEMMA CreateInstallStep ==
    ASSUME IInv, NEW r \in Req, CreateInstall(r) PROVE IInv'
<1> PICK k : k = Len(install) + 1
  OBVIOUS
<1> DEFINE new == [ver |-> 1, state |-> "creating", op |-> "creating", status |-> "processing",
                   data |-> NoData]
           m == [mem[r] EXCEPT !.id = k, !.state = "creating", !.op = "creating"]
<1>1. /\ TypeOK /\ OfRequest(r) /\ pc[r] = "create"
      /\ UNCHANGED <<trunk, leaf, identity, call, faults, edited>>
      /\ install' = Append(install, new)
      /\ pc' = [pc EXCEPT ![r] = "name"]
  BY DEF IInv, Control, CreateInstall, Goto
<1>2. new \in Install /\ new # Gone
  <2>1. new \in Install
    BY DEF Install, Data, NoData
  <2> QED
    BY <2>1, ConstantsOK DEF ConstantsOK
<1>3. k \in Nat \ {0}
  BY <1>1, RowTypes
<1>4. /\ m \in Memory /\ m.trunk = mem[r].trunk /\ m.old = mem[r].old /\ m.id = k
  BY <1>1, <1>3, MemoryTypes DEF Memory
<1>5. mem' = [mem EXCEPT ![r] = m]
  BY <1>1 DEF CreateInstall, TypeOK
<1>6. /\ new.status = "processing" /\ OwnData(new)
  BY ConstantsOK DEF OwnData, NoData, Own, ConstantsOK
<1> HIDE DEF m, new
<1>7. /\ install' \in Seq(Install \cup {Gone}) /\ DOMAIN install' = DOMAIN install \cup {k}
      /\ k \notin DOMAIN install /\ install'[k] = new
      /\ \A j \in DOMAIN install : install'[j] = install[j]
  BY <1>1, <1>2, RowTypes DEF TypeOK
<1>8. TypeOK'
  BY <1>1, <1>4, <1>5, <1>7 DEF TypeOK, Working, Answering
<1>9. OnlyOf(r) /\ pc'[r] = "name" /\ mem'[r] = m
  BY <1>1, <1>5 DEF OnlyOf, TypeOK
<1>10. OfRequest(r)'
  <2>1. Asked(r)' /\ TrunkRead(r)'
    BY <1>1, <1>4, <1>9 DEF OfRequest, Asked, TrunkRead, Children
  <2>2. Committing(r)' /\ LeavesRead(r)'
    BY <1>1, <1>4, <1>7, <1>9 DEF OfRequest, Committing, LeavesRead, Answering, Background
  <2>3. OldRead(r)'
    BY <1>1, <1>4, <1>9 DEF OfRequest, OldRead, OwnData, Own
  <2> QED
    BY <2>1, <2>2, <2>3 DEF OfRequest
<1>11. \A j : ~ Owes(r, j)
  BY <1>1 DEF Owes, Background
<1>12. Owes(r, k)'
  BY <1>4, <1>9 DEF Owes
<1>13. trunk.output # k
  BY <1>1, <1>3, <1>7, RowTypes DEF IInv, OutputIsCommitted, Named
<1> QED
  BY <1>1, <1>2, <1>6, <1>7, <1>8, <1>9, <1>10, <1>11, <1>12, <1>13, InstallStep

LEMMA MarkInstallStep ==
    ASSUME IInv, NEW r \in Req, MarkInstall(r) PROVE IInv'
<1>1. /\ TypeOK /\ OfRequest(r) /\ pc[r] = "mark"
      /\ UNCHANGED <<trunk, leaf, identity, call, faults, edited>>
  BY DEF IInv, Control, MarkInstall
<1> PICK i : i = mem[r].trunk.target
  OBVIOUS
<1>2. CASE ~ There(i)
  <2>1. pc' = [pc EXCEPT ![r] = "refused"] /\ UNCHANGED <<install, mem>>
    BY <1>2 DEF MarkInstall, Goto
  <2>2. Moves(r, "refused", mem[r]) /\ "refused" \in Ended \cup Working
    BY <1>1, <2>1 DEF Moves, TypeOK, Ended
  <2>3. TypeOK' /\ OnlyOf(r) /\ pc'[r] = "refused" /\ mem'[r] = mem[r] /\ call'[r] = call[r]
    BY <1>1, <2>1, <2>2, MemoryTypes, MoveTypes DEF tables
  <2>4. OfRequest(r)'
    BY <1>1, <2>1, <2>3 DEF OfRequest, Asked, TrunkRead, Children, Committing, LeavesRead,
       OldRead, OwnData, Own, Answering, Background
  <2>5. \A j : ~ Owes(r, j)
    BY <1>1 DEF Owes, Background
  <2> QED
    BY <1>1, <2>1, <2>3, <2>4, <2>5, QuietStep DEF tables
<1>3. CASE There(i)
  <2> DEFINE row == [install[i] EXCEPT !.op = "updating", !.status = "processing"]
             m == [mem[r] EXCEPT !.id = i, !.op = "updating", !.todo = Step]
  <2>1. /\ Rewrite(i, row) /\ mem' = [mem EXCEPT ![r] = m]
        /\ pc' = [pc EXCEPT ![r] = "leaves"]
    BY <1>1, <1>3 DEF MarkInstall, Goto, TypeOK
  <2>2. i \in DOMAIN install /\ install[i] \in Install /\ OwnData(install[i]) /\ i \in Nat
    BY <1>1, <1>3, RowTypes DEF There, IInv, Known
  <2>3. /\ row \in Install /\ row.status = "processing"
        /\ row.data = install[i].data /\ row.state = install[i].state
    BY <2>2 DEF Install
  <2>4. /\ m \in Memory /\ m.trunk = mem[r].trunk /\ m.old = mem[r].old
        /\ m.id = i /\ m.todo = Step
    BY <1>1, <2>2, MemoryTypes DEF Memory
  <2> HIDE DEF row, m
  <2>5. /\ install' \in Seq(Install \cup {Gone}) /\ DOMAIN install' = DOMAIN install
        /\ install'[i] # Gone /\ install[i] # Gone
        /\ \A j \in DOMAIN install \ {i} : install'[j] = install[j]
        /\ install'[i].ver > install[i].ver
        /\ install'[i].state = install[i].state /\ install'[i].data = install[i].data
        /\ install'[i].status = "processing"
    BY <1>1, <1>3, <2>1, <2>3, Rewritten
  <2>6. TypeOK'
    BY <1>1, <2>1, <2>4, <2>5 DEF TypeOK, Working, Background
  <2>7. OnlyOf(r) /\ pc'[r] = "leaves" /\ mem'[r] = m
    BY <1>1, <2>1 DEF OnlyOf, TypeOK
  <2>8. OfRequest(r)'
    <3>1. Asked(r)' /\ TrunkRead(r)'
      BY <1>1, <2>4, <2>7 DEF OfRequest, Asked, TrunkRead, Children
    <3>2. Committing(r)' /\ LeavesRead(r)'
      BY <1>1, ConstantsOK, <2>2, <2>4, <2>5, <2>7
      DEF ConstantsOK, OfRequest, Committing, LeavesRead, Answering, Background
    <3>3. OldRead(r)'
      BY <1>1, <2>4, <2>7 DEF OfRequest, OldRead, OwnData, Own
    <3> QED
      BY <3>1, <3>2, <3>3 DEF OfRequest
  <2>9. Owes(r, i)'
    BY <2>4, <2>7 DEF Owes, Background
  <2>10. \A j : ~ Owes(r, j)
    BY <1>1 DEF Owes, Background
  <2>11. OwnData(install'[i])
    BY <2>2, <2>5 DEF OwnData
  <2>12. trunk.output = i => install'[i].state # "creating"
    <3>1. ASSUME trunk.output = i PROVE install[i].state # "creating"
      <4>1. i # 0
        BY <1>1, <2>2, RowTypes
      <4> QED
        BY <1>3, <3>1, <4>1 DEF IInv, OutputIsCommitted
    <3> QED
      BY <2>5, <3>1
  <2> QED
    BY <1>1, <2>2, <2>5, <2>6, <2>7, <2>8, <2>9, <2>10, <2>11, <2>12, InstallStep
<1> QED
  BY <1>2, <1>3

\* The second write of the catch block finds the row as it read it, or none of the
\* request's debts is left.
LEMMA MarkFailedStep ==
    ASSUME IInv, NEW r \in Req, MarkFailed(r) PROVE IInv'
<1>1. /\ TypeOK /\ OfRequest(r) /\ pc[r] = "fail"
      /\ UNCHANGED <<trunk, leaf, identity, call, mem, faults, edited>>
      /\ pc' = [pc EXCEPT ![r] = "done"]
  BY DEF IInv, Control, MarkFailed, Goto
<1> PICK i : i = mem[r].id
  OBVIOUS
<1>2. CASE ~ (There(i) /\ install[i].ver = mem[r].old.ver)
  <2>1. UNCHANGED install
    BY <1>2 DEF MarkFailed
  <2>2. \A j : There(j) => ~ Owes(r, j)
    BY <1>1, <1>2 DEF Owes
  <2> QED
    BY <1>1, <2>1, <2>2, JumpStep DEF tables, Working, Background, TypeOK
<1>3. CASE There(i) /\ install[i].ver = mem[r].old.ver
  <2> DEFINE row == [mem[r].old EXCEPT !.state = FailedState(r), !.op = mem[r].op, !.status = "failed"]
  <2>1. Rewrite(i, row)
    BY <1>3 DEF MarkFailed
  <2>2. /\ i \in DOMAIN install /\ install[i] \in Install /\ OwnData(install[i])
        /\ install[i].ver \in Nat
    BY <1>1, <1>3, RowTypes DEF There, IInv, Known
  <2>3. mem[r].old = install[i]
    BY <1>1, <1>3, <2>2 DEF OfRequest, OldRead
  <2>4. FailedState(r) \in {install[i].state, "invalid"}
    BY <2>3 DEF FailedState
  <2>5. /\ row \in Install /\ row.status = "failed" /\ row.state = FailedState(r)
        /\ row.data = install[i].data
    <3>1. FailedState(r) \in {"creating", "active", "invalid"} /\ mem[r].op \in {"creating", "updating"}
      BY <1>1, <2>2, <2>4, MemoryTypes DEF Install
    <3> QED
      BY <2>2, <2>3, <3>1 DEF Install
  <2> HIDE DEF row
  <2>6. /\ install' \in Seq(Install \cup {Gone}) /\ DOMAIN install' = DOMAIN install
        /\ install'[i] # Gone /\ install[i] # Gone
        /\ \A j \in DOMAIN install \ {i} : install'[j] = install[j]
        /\ install'[i].ver > install[i].ver
        /\ install'[i].state = FailedState(r) /\ install'[i].data = install[i].data
        /\ install'[i].status = "failed"
    BY <1>1, <1>3, <2>1, <2>5, Rewritten
  <2>7. TypeOK'
    BY <1>1, <2>6 DEF TypeOK, Ended
  <2>8. OnlyOf(r) /\ pc'[r] = "done"
    BY <1>1 DEF OnlyOf, TypeOK
  <2>9. OfRequest(r)'
    <3>1. Asked(r)' /\ TrunkRead(r)'
      BY <1>1, <2>8 DEF OfRequest, Asked, TrunkRead, Children
    <3>2. Committing(r)' /\ LeavesRead(r)'
      BY <2>8 DEF Committing, LeavesRead, Answering, Background
    <3>3. OldRead(r)'
      BY <1>1, <2>8 DEF OfRequest, OldRead, OwnData, Own
    <3> QED
      BY <3>1, <3>2, <3>3 DEF OfRequest
  <2>10. \A j : j # i => ~ Owes(r, j)
    BY DEF Owes
  <2>11. OwnData(install'[i])
    BY <2>2, <2>6 DEF OwnData
  <2>12. trunk.output = i => install'[i].state # "creating"
    <3>1. ASSUME trunk.output = i PROVE install[i].state # "creating"
      <4>1. i # 0
        BY <1>1, <2>2, RowTypes
      <4> QED
        BY <1>3, <3>1, <4>1 DEF IInv, OutputIsCommitted
    <3> QED
      BY <2>4, <2>6, <3>1
  <2> QED
    BY <1>1, <2>2, <2>6, <2>7, <2>8, <2>9, <2>10, <2>11, <2>12, InstallStep
<1> QED
  BY <1>2, <1>3

LEMMA EditInstallStep ==
    ASSUME IInv, NEW r \in Req, NEW i \in DOMAIN install, EditInstall(r, i) PROVE IInv'
<1> DEFINE c == [kind |-> "edit", arg |-> i, output |-> NoOutput]
<1>1. /\ TypeOK /\ OfRequest(r) /\ pc[r] = "idle" /\ There(i)
      /\ UNCHANGED <<trunk, leaf, identity, mem, faults>>
      /\ pc' = [pc EXCEPT ![r] = "done"] /\ call' = [call EXCEPT ![r] = c]
      /\ edited' = edited \cup {i}
  BY DEF IInv, Control, EditInstall, Begin, Goto
<1>2. PICK d \in {install[i].data, NoData} : Rewrite(i, [install[i] EXCEPT !.data = d])
  BY DEF EditInstall
<1> DEFINE row == [install[i] EXCEPT !.data = d]
<1>3. c \in Call /\ i \in Nat
  BY <1>1, RowTypes DEF Call, Kind, Output
<1>4. install[i] \in Install /\ install[i].data \in Data /\ OwnData(install[i])
  BY <1>1, RowTypes DEF There, IInv, Known, Data
<1>5. d \in Data /\ \A s \in Connector : Own(d[s], s)
  <2>1. NoData \in Data /\ \A s \in Connector : Own(NoData[s], s)
    BY ConstantsOK DEF ConstantsOK, Data, NoData, Own
  <2> QED
    BY <1>2, <1>4, <2>1 DEF OwnData
<1>6. row \in Install /\ row.state = install[i].state /\ row.data = d
  BY <1>4, <1>5 DEF Install
<1>7. Rewrite(i, row)
  BY <1>2
<1> HIDE DEF row, c
<1>8. /\ install' \in Seq(Install \cup {Gone}) /\ DOMAIN install' = DOMAIN install
      /\ install'[i] # Gone /\ install[i] # Gone
      /\ \A j \in DOMAIN install \ {i} : install'[j] = install[j]
      /\ install'[i].ver > install[i].ver
      /\ install'[i].state = install[i].state /\ install'[i].data = d
  BY <1>1, <1>6, <1>7, Rewritten
<1>9. TypeOK'
  BY <1>1, <1>3, <1>8 DEF TypeOK, Ended
<1>10. OnlyOf(r) /\ pc'[r] = "done"
  BY <1>1 DEF OnlyOf, TypeOK
<1>11. OfRequest(r)'
  <2>1. Asked(r)' /\ TrunkRead(r)'
    BY <1>1, <1>10 DEF OfRequest, Asked, TrunkRead, Children
  <2>2. Committing(r)' /\ LeavesRead(r)'
    BY <1>10 DEF Committing, LeavesRead, Answering, Background
  <2>3. OldRead(r)'
    BY <1>1, <1>10 DEF OfRequest, OldRead, OwnData, Own
  <2> QED
    BY <2>1, <2>2, <2>3 DEF OfRequest
<1>12. \A j : ~ Owes(r, j)
  BY <1>1 DEF Owes, Background
<1>13. OwnData(install'[i])
  BY <1>5, <1>8 DEF OwnData
<1>14. trunk.output = i => install'[i].state # "creating"
  <2>1. ASSUME trunk.output = i PROVE install[i].state # "creating"
    <3>1. i # 0
      BY <1>1, RowTypes
    <3> QED
      BY <1>1, <2>1, <3>1 DEF IInv, OutputIsCommitted
  <2> QED
    BY <1>8, <2>1
<1> QED
  BY <1>1, <1>8, <1>9, <1>10, <1>11, <1>12, <1>13, <1>14, InstallStep

LEMMA DeleteInstallStep ==
    ASSUME IInv, NEW r \in Req, NEW i \in DOMAIN install, DeleteInstall(r, i) PROVE IInv'
<1> DEFINE c == [kind |-> "delete", arg |-> i, output |-> NoOutput]
<1>1. /\ TypeOK /\ OfRequest(r) /\ pc[r] = "idle"
      /\ UNCHANGED <<trunk, leaf, identity, mem, faults, edited>>
      /\ pc' = [pc EXCEPT ![r] = "done"] /\ call' = [call EXCEPT ![r] = c]
      /\ install' = [install EXCEPT ![i] = Gone]
  BY DEF IInv, Control, DeleteInstall, Begin, Goto
<1>2. c \in Call
  BY <1>1, RowTypes DEF Call, Kind, Output
<1> HIDE DEF c
<1>3. /\ install' \in Seq(Install \cup {Gone}) /\ DOMAIN install' = DOMAIN install
      /\ install'[i] = Gone /\ \A j \in DOMAIN install \ {i} : install'[j] = install[j]
  BY <1>1 DEF TypeOK
<1>4. TypeOK'
  BY <1>1, <1>2, <1>3 DEF TypeOK, Ended
<1>5. OnlyOf(r) /\ pc'[r] = "done"
  BY <1>1 DEF OnlyOf, TypeOK
<1>6. OfRequest(r)'
  <2>1. Asked(r)' /\ TrunkRead(r)'
    BY <1>1, <1>5 DEF OfRequest, Asked, TrunkRead, Children
  <2>2. Committing(r)' /\ LeavesRead(r)'
    BY <1>5 DEF Committing, LeavesRead, Answering, Background
  <2>3. OldRead(r)'
    BY <1>1, <1>5 DEF OfRequest, OldRead, OwnData, Own
  <2> QED
    BY <2>1, <2>2, <2>3 DEF OfRequest
<1>7. \A j : ~ Owes(r, j)
  BY <1>1 DEF Owes, Background
<1> QED
  BY <1>1, <1>3, <1>4, <1>5, <1>6, <1>7, InstallStep

-----------------------------------------------------------------------------
(***************************************************************************)
(* Steps that write the trunk for an install.                              *)
(***************************************************************************)

\* A session that names no install has no output.
LEMMA NameInstallStep ==
    ASSUME IInv, NEW r \in Req, NameInstall(r) PROVE IInv'
<1> DEFINE v == mem[r].trunk.ver + 1
           new == [mem[r].trunk EXCEPT !.target = mem[r].id, !.ver = v]
           m == [mem[r] EXCEPT !.trunk = new, !.todo = Step]
<1>1. /\ TypeOK /\ OfRequest(r) /\ pc[r] = "name" /\ mem[r].trunk = trunk
      /\ UNCHANGED <<leaf, install, identity, call, faults, edited>>
      /\ trunk' = new /\ pc' = [pc EXCEPT ![r] = "leaves"]
  BY TrunkHeld DEF IInv, Control, NameInstall, Goto
<1>2. mem' = [mem EXCEPT ![r] = m]
  BY <1>1 DEF NameInstall, TypeOK
<1>3. v \in Nat /\ v > trunk.ver
  BY <1>1, MemoryTypes
<1> HIDE DEF v
<1>4. /\ new \in Trunk /\ new.ver = v /\ new.target = mem[r].id /\ new.child = trunk.child
      /\ new.output = trunk.output
  BY <1>1, <1>3, MemoryTypes DEF Trunk
<1> HIDE DEF new
<1>5. m \in Memory /\ m.trunk = new /\ m.old = mem[r].old /\ m.id = mem[r].id /\ m.todo = Step
  BY <1>1, <1>4, MemoryTypes DEF Memory
<1> HIDE DEF m
<1>6. mem[r].id \in DOMAIN install /\ trunk.target = 0
  BY <1>1 DEF OfRequest, Committing
<1>7. TypeOK'
  BY <1>1, <1>2, <1>4, <1>5 DEF TypeOK, Working, Background
<1>8. OnlyOf(r) /\ pc'[r] = "leaves" /\ mem'[r] = m
  BY <1>1, <1>2 DEF OnlyOf, TypeOK
<1>9. Grows
  BY <1>1, <1>3, <1>4 DEF Grows
<1>10. OfRequest(r)'
  <2>1. Asked(r)' /\ TrunkRead(r)'
    BY <1>1, <1>4, <1>5, <1>8 DEF OfRequest, Asked, TrunkRead, Children
  <2>2. Committing(r)' /\ LeavesRead(r)'
    BY <1>1, <1>4, <1>5, <1>6, <1>8, ConstantsOK
    DEF ConstantsOK, OfRequest, Committing, LeavesRead, Answering, Background
  <2>3. OldRead(r)'
    BY <1>1, <1>5, <1>8 DEF OfRequest, OldRead, OwnData, Own
  <2> QED
    BY <2>1, <2>2, <2>3 DEF OfRequest
<1>11. Control'
  BY <1>7, <1>8, <1>9, <1>10, ControlKept
<1>12. OneLeafPerStep' /\ Known' /\ CommittedWhole' /\ Named'
  BY <1>1, <1>4, <1>6 DEF IInv, OneLeafPerStep, Known, OwnData, Own, CommittedWhole, Named, There
<1>13. OutputIsCommitted'
  BY <1>1, <1>4, <1>6 DEF IInv, OutputIsCommitted
<1>14. Owed'
  <2>1. \A i : Owes(r, i) => Owes(r, i)'
    BY <1>1, <1>5, <1>8 DEF Owes, Background
  <2> QED
    BY <1>1, <1>8, <2>1, OwedKept DEF There
<1> QED
  BY <1>7, <1>11, <1>12, <1>13, <1>14 DEF IInv

\* The connector steps of a commit have an identity each, an old one of their own or
\* a new one.
LEMMA IdentityIds ==
    ASSUME TypeOK, NEW r \in Req, \A s \in Connector : Own(mem[r].got[s].target, s)
    PROVE  LET len == Len(identity) + Cardinality(NewIdentities(r))
           IN  /\ len \in Nat /\ Len(identity) <= len
               /\ \A s \in Connector : IdentityId(r, s) \in 1 .. len
               /\ \A s \in Connector : IdentityId(r, s) \in DOMAIN identity =>
                    identity[IdentityId(r, s)].step = s
               /\ \A s, t \in Connector : IdentityId(r, s) = IdentityId(r, t) => s = t
               /\ \A i \in 1 .. len : i \in DOMAIN identity \/ \E s \in Connector : IdentityId(r, s) = i
<1> DEFINE new == NewIdentities(r)
           rank(s) == Cardinality({t \in new : t <= s})
           len == Len(identity) + Cardinality(new)
<1>1. new \in SUBSET Step
  BY ConstantsOK DEF ConstantsOK, NewIdentities
<1>2. /\ Cardinality(new) \in Nat
      /\ \A s \in new : rank(s) \in 1 .. Cardinality(new)
      /\ \A s, t \in new : rank(s) = rank(t) => s = t
      /\ \A i \in 1 .. Cardinality(new) : \E s \in new : rank(s) = i
  <2> HIDE DEF new
  <2> QED
    BY <1>1, Ranks
<1>3. DOMAIN identity = 1 .. Len(identity) /\ Len(identity) \in Nat
  BY RowTypes
<1>4. \A s \in new : s \in Connector /\ IdentityId(r, s) = Len(identity) + rank(s)
  BY DEF IdentityId, NewIdentities
<1>5. \A s \in Connector \ new : /\ IdentityId(r, s) \in DOMAIN identity
                                 /\ identity[IdentityId(r, s)].step = s
  BY DEF IdentityId, NewIdentities, Own
<1> HIDE DEF new, rank
<1>6. \A s \in new : /\ IdentityId(r, s) \in 1 .. len
                     /\ IdentityId(r, s) \notin DOMAIN identity
  BY <1>2, <1>3, <1>4
<1>7. \A s \in Connector : /\ IdentityId(r, s) \in 1 .. len
                           /\ IdentityId(r, s) \in DOMAIN identity => identity[IdentityId(r, s)].step = s
  BY <1>2, <1>3, <1>5, <1>6
<1>8. ASSUME NEW s \in Connector, NEW t \in Connector, IdentityId(r, s) = IdentityId(r, t) PROVE s = t
  <2>1. CASE s \in new /\ t \in new
    <3>1. rank(s) = rank(t)
      BY <1>2, <1>3, <1>4, <1>8, <2>1
    <3> QED
      BY <1>2, <2>1, <3>1
  <2>2. CASE s \notin new /\ t \notin new
    BY <1>5, <1>8, <2>2
  <2> QED
    BY <1>5, <1>6, <1>8, <2>1, <2>2
<1>9. ASSUME NEW i \in 1 .. len, i \notin DOMAIN identity PROVE \E s \in Connector : IdentityId(r, s) = i
  <2>1. i - Len(identity) \in 1 .. Cardinality(new)
    BY <1>2, <1>3, <1>9
  <2>2. PICK s \in new : rank(s) = i - Len(identity)
    BY <1>2, <2>1
  <2>3. IdentityId(r, s) = i
    BY <1>2, <1>3, <1>4, <2>2
  <2> QED
    BY <1>4, <2>3
<1>10. len \in Nat /\ Len(identity) <= len
  BY <1>2, <1>3
<1> HIDE DEF len
<1>11. /\ \A s, t \in Connector : IdentityId(r, s) = IdentityId(r, t) => s = t
       /\ \A i \in 1 .. len : i \in DOMAIN identity \/ \E s \in Connector : IdentityId(r, s) = i
  BY <1>8, <1>9
<1> QED
  BY <1>7, <1>10, <1>11 DEF len, new

\* The identities written: the commit's own as its leaves say, others as they were.
LEMMA IdentitiesWritten ==
    ASSUME TypeOK, NEW r \in Req, \A s \in Connector : Own(mem[r].got[s].target, s),
           NEW new, new = IdentitiesOf(r)
    PROVE  /\ new \in Seq(Identity) /\ DOMAIN identity \subseteq DOMAIN new
           /\ \A s \in Connector : /\ IdentityId(r, s) \in DOMAIN new
                                   /\ new[IdentityId(r, s)].step = s
                                   /\ new[IdentityId(r, s)].output = mem[r].got[s].output
           /\ \A d \in DOMAIN identity :
                /\ new[d].step = identity[d].step
                /\ \/ new[d] = identity[d]
                   \/ \E s \in Connector : new[d].output = mem[r].got[s].output
<1> DEFINE len == Len(identity) + Cardinality(NewIdentities(r))
           Id(s) == IdentityId(r, s)
           row(s) == [step |-> s, output |-> mem[r].got[s].output]
           has(i) == CHOOSE s \in Connector : Id(s) = i
<1>1. /\ len \in Nat /\ Len(identity) <= len
      /\ \A s \in Connector : Id(s) \in 1 .. len
      /\ \A s \in Connector : Id(s) \in DOMAIN identity => identity[Id(s)].step = s
      /\ \A s, t \in Connector : Id(s) = Id(t) => s = t
      /\ \A i \in 1 .. len : i \in DOMAIN identity \/ \E s \in Connector : Id(s) = i
  BY IdentityIds
<1>2. new = [i \in 1 .. len |-> IF \E s \in Connector : Id(s) = i THEN row(has(i)) ELSE identity[i]]
  BY DEF IdentitiesOf
<1>3. /\ \A d \in DOMAIN identity : identity[d] \in Identity
      /\ DOMAIN identity = 1 .. Len(identity) /\ Len(identity) \in Nat
  BY RowTypes
<1>4. \A s \in Connector : row(s) \in Identity /\ row(s).step = s /\ row(s).output = mem[r].got[s].output
  BY ConstantsOK, MemoryTypes DEF ConstantsOK, Identity, Leaf
<1>5. \A i : (\E s \in Connector : Id(s) = i) => has(i) \in Connector /\ Id(has(i)) = i
  OBVIOUS
<1>6. \A s \in Connector : has(Id(s)) = s
  BY <1>1, <1>5
<1> HIDE DEF len, Id, row, has
<1>7. \A s \in Connector : Id(s) \in DOMAIN new /\ new[Id(s)] = row(s)
  BY <1>1, <1>2, <1>6
<1>8. \A i \in 1 .. len : new[i] \in Identity
  BY <1>1, <1>2, <1>3, <1>4, <1>5
<1>9. new \in Seq(Identity) /\ DOMAIN identity \subseteq DOMAIN new
  <2>1. new \in [1 .. len -> Identity]
    BY <1>2, <1>8
  <2> QED
    BY <1>1, <1>3, <2>1
<1>10. ASSUME NEW d \in DOMAIN identity
       PROVE  /\ new[d].step = identity[d].step
              /\ \/ new[d] = identity[d]
                 \/ \E s \in Connector : new[d].output = mem[r].got[s].output
  <2>1. CASE \E s \in Connector : Id(s) = d
    BY <1>1, <1>4, <1>7, <2>1
  <2>2. CASE ~ \E s \in Connector : Id(s) = d
    BY <1>1, <1>2, <1>3, <2>2
  <2> QED
    BY <2>1, <2>2
<1> QED
  BY <1>4, <1>7, <1>9, <1>10 DEF Id

\* The transaction of a commit takes effect, whether the request hears of it or not.
LEMMA CommittedStep ==
    ASSUME IInv, NEW r \in Req, pc[r] = "persist", PersistWrites(r), NEW w \in {"done", "broken"},
           pc' = [pc EXCEPT ![r] = w], UNCHANGED <<leaf, call, mem, edited>>, faults' \in 0 .. MaxFaults
    PROVE  IInv'
<1> PICK i : i = mem[r].id
  OBVIOUS
<1> DEFINE data == PersistedData(r)
           row == [ver |-> 0, state |-> "active", op |-> mem[r].op, status |-> "success", data |-> data]
           v == trunk.ver + 1
<1>1. /\ TypeOK /\ OfRequest(r) /\ There(i) /\ mem[r].trunk = trunk
      /\ Rewrite(i, row) /\ identity' = IdentitiesOf(r)
      /\ trunk' = [trunk EXCEPT !.output = i, !.ver = v]
  BY TrunkHeld DEF IInv, Control, PersistWrites
<1>2. /\ i \in DOMAIN install /\ trunk.target = i /\ i \in Nat
      /\ \A s \in Connector : Own(mem[r].got[s].target, s)
      /\ \A s \in Step : mem[r].got[s].output # Failed
  BY <1>1, MemoryTypes DEF OfRequest, Committing, LeavesRead, Background
<1>3. v \in Nat /\ v > trunk.ver
  BY <1>1, RowTypes
<1> HIDE DEF v
<1>4. /\ trunk' \in Trunk /\ trunk'.ver = v /\ trunk'.target = i /\ trunk'.output = i
      /\ trunk'.child = trunk.child
  BY <1>1, <1>2, <1>3 DEF TypeOK, Trunk
<1>5. PICK new : new = identity'
  OBVIOUS
<1>6. /\ new \in Seq(Identity) /\ DOMAIN identity \subseteq DOMAIN new
      /\ \A s \in Connector : /\ IdentityId(r, s) \in DOMAIN new
                              /\ new[IdentityId(r, s)].step = s
                              /\ new[IdentityId(r, s)].output = mem[r].got[s].output
      /\ \A d \in DOMAIN identity :
           /\ new[d].step = identity[d].step
           /\ \/ new[d] = identity[d]
              \/ \E s \in Connector : new[d].output = mem[r].got[s].output
  BY <1>1, <1>2, <1>5, IdentitiesWritten
<1>7. /\ data \in Data
      /\ \A s \in Connector : data[s] = IdentityId(r, s)
      /\ \A s \in Step \ Connector : data[s] = mem[r].got[s].output
  <2>1. \A s \in Connector : IdentityId(r, s) \in Nat
    BY <1>6
  <2>2. \A s \in Step : mem[r].got[s].output \in Nat
    BY <1>1, MemoryTypes DEF Leaf, Output, NoOutput, Good, Failed
  <2> QED
    BY <2>1, <2>2, ConstantsOK DEF ConstantsOK, PersistedData, Data
<1> HIDE DEF data
<1>8. /\ row \in Install /\ row.state = "active" /\ row.status = "success" /\ row.data = data
  BY <1>1, <1>7, MemoryTypes DEF Install
<1> HIDE DEF row
<1>9. /\ install' \in Seq(Install \cup {Gone}) /\ DOMAIN install' = DOMAIN install
      /\ install'[i] # Gone /\ install[i] # Gone
      /\ \A j \in DOMAIN install \ {i} : install'[j] = install[j]
      /\ install'[i].ver > install[i].ver
      /\ install'[i].state = "active" /\ install'[i].data = data
      /\ install'[i].status = "success"
  BY <1>1, <1>8, Rewritten
<1>10. TypeOK'
  BY <1>1, <1>4, <1>5, <1>6, <1>9 DEF TypeOK, Ended, Working, Background
<1>11. OnlyOf(r) /\ pc'[r] = w
  BY <1>1 DEF OnlyOf, TypeOK
<1>12. Grows
  BY <1>1, <1>3, <1>4, <1>5, <1>6, <1>9 DEF Grows
<1>13. OfRequest(r)'
  <2>1. Asked(r)' /\ TrunkRead(r)'
    BY <1>1, <1>3, <1>4, <1>11 DEF OfRequest, Asked, TrunkRead, Children
  <2>2. Committing(r)' /\ LeavesRead(r)'
    BY <1>1, <1>9, <1>11 DEF OfRequest, Committing, LeavesRead, Answering, Background
  <2>3. OldRead(r)'
    BY <1>1, <1>5, <1>6, <1>11 DEF OfRequest, OldRead, OwnData, Own
  <2> QED
    BY <2>1, <2>2, <2>3 DEF OfRequest
<1>14. Control'
  BY <1>10, <1>11, <1>12, <1>13, ControlKept
<1>15. OneLeafPerStep' /\ Named' /\ OutputIsCommitted'
  BY <1>2, <1>4, <1>9 DEF IInv, OneLeafPerStep, Named, OutputIsCommitted
<1>16. Known'
  <2>1. \A d, s : Own(d, s) => Own(d, s)'
    BY <1>5, <1>6 DEF Own
  <2>2. ASSUME NEW j \in DOMAIN install, install'[j] # Gone, NEW s \in Connector
        PROVE  LET d == install'[j].data[s] IN d # 0 => d \in DOMAIN new /\ new[d].step = s
    <3>1. CASE j = i
      BY <1>6, <1>7, <1>9, <3>1
    <3>2. CASE j # i
      <4>1. OwnData(install[j]) /\ install'[j] = install[j]
        BY <1>9, <2>2, <3>2 DEF IInv, Known, There
      <4> QED
        BY <1>6, <4>1 DEF OwnData, Own
    <3> QED
      BY <3>1, <3>2
  <2>3. \A j \in DOMAIN install' : There(j)' => OwnData(install[j])'
    BY <1>5, <1>9, <2>2 DEF OwnData, Own, There
  <2>4. \A l \in DOMAIN leaf : leaf[l].step \in Connector => Own(leaf[l].target, leaf[l].step)'
    BY <2>1 DEF IInv, Known
  <2> QED
    BY <2>3, <2>4 DEF Known
<1>17. CommittedWhole'
  <2> SUFFICES ASSUME NEW j \in DOMAIN install, install'[j] # Gone, j \notin edited,
                      install'[j].status = "success", NEW s \in Step
               PROVE  IF s \in Connector
                      THEN /\ install'[j].data[s] \in DOMAIN new /\ new[install'[j].data[s]].step = s
                           /\ new[install'[j].data[s]].output # Failed
                      ELSE install'[j].data[s] # Failed
    BY <1>5, <1>9 DEF CommittedWhole, There
  <2>1. CASE j = i
    BY <1>2, <1>6, <1>7, <1>9, <2>1
  <2>2. CASE j # i
    <3> DEFINE d == install[j].data[s]
    <3>1. install'[j] = install[j] /\ There(j)
      BY <1>9, <2>2 DEF There
    <3>2. IF s \in Connector
          THEN d \in DOMAIN identity /\ identity[d].step = s /\ identity[d].output # Failed
          ELSE d # Failed
      BY <3>1 DEF IInv, CommittedWhole
    <3>3. s \in Connector => new[d].step = s /\ new[d].output # Failed
      BY <1>2, <1>6, <3>2, ConstantsOK DEF ConstantsOK
    <3> QED
      BY <1>6, <3>1, <3>2, <3>3
  <2> QED
    BY <2>1, <2>2
<1>18. Owed'
  <2>1. \A j : j # i => ~ Owes(r, j)
    BY DEF Owes
  <2> QED
    BY <1>9, <1>11, <2>1, OwedKept
<1> QED
  BY <1>10, <1>14, <1>15, <1>16, <1>17, <1>18 DEF IInv

LEMMA PersistStep ==
    ASSUME IInv, NEW r \in Req, Persist(r) PROVE IInv'
BY CommittedStep DEF Persist, Goto, IInv, TypeOK

LEMMA CallThrowsStep ==
    ASSUME IInv, NEW r \in Req, CallThrows(r) PROVE IInv'
<1>1. faults' \in 0 .. MaxFaults /\ pc[r] \in Background /\ UNCHANGED <<call, mem, edited>>
  BY ConstantsOK DEF ConstantsOK, CallThrows, Fault, IInv, TypeOK
<1>2. PICK w \in {"lost", "broken"} : /\ pc' = [pc EXCEPT ![r] = w]
                                      /\ pc[r] = "persist" => w = "broken"
  BY DEF CallThrows, Goto
<1>3. CASE UNCHANGED tables
  BY <1>1, <1>2, <1>3, JumpStep DEF Working
<1>4. CASE pc[r] = "persist" /\ PersistWrites(r) /\ UNCHANGED leaf
  BY <1>1, <1>2, <1>4, CommittedStep
<1> QED
  BY <1>3, <1>4 DEF CallThrows

-----------------------------------------------------------------------------
(***************************************************************************)
(* The invariant and what follows from it.                                 *)
(***************************************************************************)

\* An identity for each connector, numbered in the order of the steps.
LEMMA InitialIdentities ==
    ASSUME NEW again \in BOOLEAN, again
    PROVE  LET id(s) == IF again /\ s \in Connector
                        THEN Cardinality({t \in Connector : t <= s}) ELSE 0
               rows == [i \in 1 .. Cardinality(Connector) |->
                          [step |-> CHOOSE s \in Connector : id(s) = i, output |-> Good]]
           IN  /\ rows \in Seq(Identity) /\ \A i \in DOMAIN rows : rows[i].output = Good
               /\ \A s \in Connector : id(s) \in Nat /\ id(s) \in DOMAIN rows /\ rows[id(s)].step = s
<1> DEFINE rank(s) == Cardinality({t \in Connector : t <= s})
           id(s) == IF again /\ s \in Connector THEN rank(s) ELSE 0
           has(i) == CHOOSE s \in Connector : id(s) = i
           rows == [i \in 1 .. Cardinality(Connector) |-> [step |-> has(i), output |-> Good]]
<1>1. /\ Cardinality(Connector) \in Nat
      /\ \A s \in Connector : rank(s) \in 1 .. Cardinality(Connector)
      /\ \A s, t \in Connector : rank(s) = rank(t) => s = t
      /\ \A i \in 1 .. Cardinality(Connector) : \E s \in Connector : rank(s) = i
  BY ConstantsOK, Ranks DEF ConstantsOK
<1> HIDE DEF rank
<1>2. \A s \in Connector : id(s) = rank(s)
  OBVIOUS
<1> HIDE DEF id
<1>3. \A i \in 1 .. Cardinality(Connector) : has(i) \in Connector /\ id(has(i)) = i
  BY <1>1, <1>2
<1>4. \A s \in Connector : has(id(s)) = s
  BY <1>1, <1>2, <1>3
<1> HIDE DEF has
<1>5. \A i \in 1 .. Cardinality(Connector) : [step |-> has(i), output |-> Good] \in Identity
  BY <1>3, ConstantsOK DEF ConstantsOK, Identity, Output
<1>6. rows \in Seq(Identity) /\ DOMAIN rows = 1 .. Cardinality(Connector)
      /\ \A i \in DOMAIN rows : rows[i].output = Good /\ rows[i].step = has(i)
  <2>1. rows \in [1 .. Cardinality(Connector) -> Identity]
    BY <1>5
  <2> QED
    BY <1>1, <2>1
<1> HIDE DEF rows
<1>7. \A s \in Connector : id(s) \in Nat /\ id(s) \in DOMAIN rows /\ rows[id(s)].step = s
  BY <1>1, <1>2, <1>4, <1>6
<1> QED
  BY <1>6, <1>7 DEF rows, has, id, rank

LEMMA InitIInv ==
    ASSUME Init PROVE IInv
<1>1. PICK started \in 0 .. N, again \in BOOLEAN, outs \in [Step -> {NoOutput, Good}] :
        LET id(s) == IF again /\ s \in Connector
                     THEN Cardinality({t \in Connector : t <= s}) ELSE 0
        IN  /\ trunk = [ver |-> 1, child |-> [s \in Step |-> IF s <= started THEN s ELSE 0],
                        target |-> IF again THEN 1 ELSE 0, output |-> 0]
            /\ leaf = [s \in 1 .. started |->
                         [ver |-> 1, step |-> s, output |-> outs[s],
                          target |-> IF again /\ s \notin Connector THEN 1 ELSE id(s)]]
            /\ install = IF again THEN <<[ver |-> 1, state |-> "active", op |-> "creating",
                                          status |-> "success",
                                          data |-> [s \in Step |-> IF s \in Connector THEN id(s)
                                                                   ELSE Good]]>>
                                  ELSE <<>>
            /\ identity = IF again THEN [i \in 1 .. Cardinality(Connector) |->
                                           [step |-> CHOOSE s \in Connector : id(s) = i,
                                            output |-> Good]]
                                   ELSE <<>>
            /\ mem = [r \in Req |-> [trunk |-> trunk, old |-> Gone, todo |-> {},
                                     got |-> [s \in Step |-> NoLeaf], id |-> 0,
                                     state |-> "none", op |-> "creating"]]
  BY DEF Init
<1> DEFINE id(s) == IF again /\ s \in Connector
                    THEN Cardinality({t \in Connector : t <= s}) ELSE 0
           rows == [i \in 1 .. Cardinality(Connector) |->
                      [step |-> CHOOSE s \in Connector : id(s) = i, output |-> Good]]
           data == [s \in Step |-> IF s \in Connector THEN id(s) ELSE Good]
           row == [ver |-> 1, state |-> "active", op |-> "creating", status |-> "success", data |-> data]
<1>2. again => /\ rows \in Seq(Identity) /\ \A i \in DOMAIN rows : rows[i].output = Good
               /\ \A s \in Connector : id(s) \in Nat /\ id(s) \in DOMAIN rows /\ rows[id(s)].step = s
  <2> SUFFICES ASSUME again
               PROVE  /\ rows \in Seq(Identity) /\ \A i \in DOMAIN rows : rows[i].output = Good
                      /\ \A s \in Connector : id(s) \in Nat /\ id(s) \in DOMAIN rows /\ rows[id(s)].step = s
    OBVIOUS
  <2> QED
    BY InitialIdentities
<1>3. N \in Nat \ {0} /\ Step = 1 .. N /\ Connector \subseteq Step /\ started \in Nat /\ started <= N
  BY ConstantsOK DEF ConstantsOK, Step
<1>4. identity = (IF again THEN rows ELSE <<>>) /\ install = IF again THEN <<row>> ELSE <<>>
  <2>1. identity = IF again THEN rows ELSE <<>>
    BY ONLY <1>1
  <2>2. install = IF again THEN <<row>> ELSE <<>>
    BY ONLY <1>1
  <2> QED
    BY <2>1, <2>2
<1>5. leaf = [s \in 1 .. started |->
                [ver |-> 1, step |-> s, output |-> outs[s],
                 target |-> IF again /\ s \notin Connector THEN 1 ELSE id(s)]]
  BY <1>1
<1>6. ~ again => \A s : id(s) = 0
  OBVIOUS
<1>7. \A s \in Step \ Connector : id(s) = 0
  OBVIOUS
<1> HIDE DEF rows, id
<1>8. identity \in Seq(Identity) /\ \A i \in DOMAIN identity : identity[i].output = Good
  BY <1>2, <1>4
<1>9. \A s \in Step : id(s) \in Nat /\ (s \in Connector => Own(id(s), s))
  BY <1>2, <1>4, <1>6, <1>7 DEF Own
<1>10. data \in Data /\ \A s \in Connector : data[s] = id(s)
  BY <1>3, <1>9 DEF Data, Good
<1>11. \A s \in Step \ Connector : data[s] # Failed
  BY DEF Good, Failed
<1> HIDE DEF data
<1>12. row \in Install /\ row.status = "success" /\ row.data = data
  BY <1>10 DEF Install
<1> HIDE DEF row
<1>13. row # Gone
  BY <1>12, ConstantsOK DEF ConstantsOK
<1>14. trunk \in Trunk /\ trunk.output = 0 /\ trunk.target = (IF again THEN 1 ELSE 0)
      /\ \A s \in Step : trunk.child[s] = IF s <= started THEN s ELSE 0
  <2> DEFINE ch == [s \in Step |-> IF s <= started THEN s ELSE 0]
  <2>1. ch \in [Step -> Nat]
    BY <1>3
  <2> HIDE DEF ch
  <2>2. trunk = [ver |-> 1, child |-> ch, target |-> IF again THEN 1 ELSE 0, output |-> 0]
    BY <1>1 DEF ch
  <2>3. trunk \in Trunk /\ trunk.output = 0 /\ trunk.target = (IF again THEN 1 ELSE 0) /\ trunk.child = ch
    BY <2>1, <2>2 DEF Trunk
  <2> QED
    BY <2>3 DEF ch
<1>15. /\ leaf \in Seq(Leaf) /\ DOMAIN leaf = 1 .. started
       /\ \A s \in 1 .. started : leaf[s].step = s /\ (s \in Connector => leaf[s].target = id(s))
  <2>1. \A s \in 1 .. started : /\ leaf[s] \in Leaf /\ leaf[s].step = s
                                /\ s \in Connector => leaf[s].target = id(s)
    <3> TAKE s \in 1 .. started
    <3>1. s \in Step /\ outs[s] \in Output /\ id(s) \in Nat
      BY <1>3, <1>9 DEF Output
    <3> DEFINE t == IF again /\ s \notin Connector THEN 1 ELSE id(s)
    <3>2. t \in Nat
      BY <3>1
    <3>3. leaf[s] = [ver |-> 1, step |-> s, output |-> outs[s], target |-> t]
      BY <1>5
    <3>4. s \in Connector => t = id(s)
      OBVIOUS
    <3> HIDE DEF t
    <3> QED
      BY <3>1, <3>2, <3>3, <3>4 DEF Leaf
  <2>2. leaf \in [1 .. started -> Leaf]
    BY <1>5, <2>1
  <2> QED
    BY <1>3, <2>1, <2>2
<1>16. /\ install \in Seq(Install \cup {Gone})
       /\ DOMAIN install = IF again THEN {1} ELSE {}
       /\ \A i \in DOMAIN install : install[i] = row
  <2>1. CASE again
    BY <1>4, <1>12, <2>1
  <2>2. CASE ~ again
    BY <1>4, <2>2
  <2> QED
    BY <2>1, <2>2
<1>17. \A r \in Req : /\ mem[r] \in Memory /\ mem[r].trunk = trunk /\ mem[r].old = Gone /\ mem[r].id = 0
  <2>1. [s \in Step |-> NoLeaf] \in [Step -> Leaf]
    BY <1>3 DEF NoLeaf, Leaf, Output, NoOutput
  <2> DEFINE m == [trunk |-> trunk, old |-> Gone, todo |-> {}, got |-> [s \in Step |-> NoLeaf],
                   id |-> 0, state |-> "none", op |-> "creating"]
  <2>2. m \in Memory
    BY <1>14, <2>1 DEF Memory
  <2>3. \A r \in Req : mem[r] = m
    BY <1>1
  <2> QED
    BY <2>2, <2>3
<1>18. /\ pc = [r \in Req |-> "idle"] /\ call = [r \in Req |-> NoCall] /\ faults = 0 /\ edited = {}
       /\ mem \in [Req -> Memory] /\ \A r \in Req : pc[r] = "idle"
  BY <1>1, <1>17 DEF Init
<1>19. TypeOK
  BY <1>8, <1>14, <1>15, <1>16, <1>18, ConstantsOK DEF ConstantsOK, TypeOK, Ended
<1>20. OneLeafPerStep
  BY <1>3, <1>14, <1>15 DEF OneLeafPerStep
<1>21. Known
  BY <1>3, <1>9, <1>10, <1>12, <1>15, <1>16 DEF Known, OwnData, There
<1>22. Control
  <2> SUFFICES ASSUME NEW r \in Req PROVE OfRequest(r)
    BY DEF Control
  <2>1. TrunkRead(r)
    BY <1>17, <1>20 DEF TrunkRead, Children, OneLeafPerStep
  <2> QED
    BY <1>17, <1>18, <2>1 DEF OfRequest, Asked, Committing, LeavesRead, OldRead, Answering, Background
<1>23. CommittedWhole
  <2> SUFFICES ASSUME again, NEW s \in Step
               PROVE  IF s \in Connector
                      THEN /\ data[s] \in DOMAIN identity /\ identity[data[s]].step = s
                           /\ identity[data[s]].output # Failed
                      ELSE data[s] # Failed
    BY <1>16, <1>12 DEF CommittedWhole
  <2> QED
    BY <1>2, <1>4, <1>8, <1>10, <1>11 DEF Good, Failed
<1>24. Owed
  BY <1>16, <1>12 DEF Owed
<1>25. Named /\ OutputIsCommitted
  BY <1>14, <1>16 DEF Named, OutputIsCommitted
<1> QED
  BY <1>19, <1>20, <1>21, <1>22, <1>23, <1>24, <1>25 DEF IInv

LEMMA StepIInv ==
    ASSUME IInv, [Next]_vars PROVE IInv'
<1>1. ASSUME NEW r \in Req, Ask(r) \/ Walk(r) \/ Answer(r) \/ Finish(r) \/ Crash(r) \/ CallThrows(r)
      PROVE  IInv'
  <2>1. CASE Ask(r)
    BY <2>1, StartStep, CommitSessionStep, FinishStep, PutSessionStep, EditInstallStep,
       DeleteInstallStep DEF Ask
  <2>2. CASE Walk(r)
    BY <2>2, ReadParentStep, ReadInstallStep, CreateLeafStep, LeafNotCreatedStep, WriteOutputStep DEF Walk
  <2>3. CASE Answer(r)
    BY <2>3, CheckLeafStep, CreateInstallStep, NameInstallStep, NameConflictStep, MarkInstallStep DEF Answer
  <2>4. CASE Finish(r)
    BY <2>4, PersistLeafStep, GatherInstallStep, PersistStep, RollbackStep, ReadBrokenStep,
       MarkFailedStep DEF Finish
  <2> QED
    BY <1>1, <2>1, <2>2, <2>3, <2>4, CrashStep, CallThrowsStep
<1>2. CASE UNCHANGED vars
  <2>1. UNCHANGED <<trunk, leaf, install, identity, pc, call, mem, faults, edited>>
    BY <1>2 DEF vars, tables
  <2>2. TypeOK' /\ OneLeafPerStep' /\ Known' /\ CommittedWhole' /\ Named' /\ OutputIsCommitted'
    BY <2>1 DEF IInv, TypeOK, OneLeafPerStep, Known, OwnData, Own, CommittedWhole, Named,
       OutputIsCommitted, There
  <2>3. Owed'
    BY <2>1 DEF IInv, Owed, Owes, There
  <2>4. ASSUME NEW r \in Req PROVE OfRequest(r)'
    <3>1. OfRequest(r)
      BY DEF IInv, Control
    <3> QED
      BY <2>1, <3>1 DEF OfRequest, Asked, TrunkRead, Children, Committing, LeavesRead, OldRead,
         OwnData, Own, There
  <2> QED
    BY <2>2, <2>3, <2>4 DEF IInv, Control
<1> QED
  BY <1>1, <1>2 DEF Next

THEOREM InvariantHolds == Spec => []IInv
BY InitIInv, StepIInv, PTL DEF Spec

\* The rows and what requests hold of them keep their types: above all, the state that
\* a failed commit leaves in an install is one of the states of an install
\* (commitSession's catch block).
THEOREM TypeCorrect == Spec => []TypeOK
<1>1. IInv => TypeOK
  BY DEF IInv
<1> QED
  BY <1>1, InvariantHolds, PTL

\* However many requests start or finish a step at once, the step has one leaf and the
\* session names it (createLeafSession).
THEOREM StepsHaveOneLeaf == Spec => []OneLeafPerStep
<1>1. IInv => OneLeafPerStep
  BY DEF IInv
<1> QED
  BY <1>1, InvariantHolds, PTL

\* An install that a commit reports as successful, and no user edited, names an identity
\* of its own for each connector step and holds no error (persistTrunkSession).
THEOREM CommitsAreWhole == Spec => []CommittedWhole
<1>1. IInv => CommittedWhole
  BY DEF IInv
<1> QED
  BY <1>1, InvariantHolds, PTL

\* An install that shows "processing" is being worked on, or has been edited, or its
\* commit died or lost the race to name it (commitSession's three writes of the status).
THEOREM ProcessingIsExplained == Spec => []ProcessingExplained
<1>1. IInv => ProcessingExplained
  BY DEF IInv, Owed, Owes, ProcessingExplained, Working, Answering
<1> QED
  BY <1>1, InvariantHolds, PTL

\* The output of a session is the install that it names, and that install has been
\* active (persistTrunkSession's last write).
THEOREM OutputsAreCommitted == Spec => []OutputIsCommitted
<1>1. IInv => OutputIsCommitted
  BY DEF IInv
<1> QED
  BY <1>1, InvariantHolds, PTL

=============================================================================
