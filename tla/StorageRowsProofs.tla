------------------------- MODULE StorageRowsProofs -------------------------
(***************************************************************************)
(* The storage API implements its contract, and a recursive deletion       *)
(* leaves only what was written since it began, for any number of clients, *)
(* items and failures.                                                     *)
(*                                                                         *)
(* The invariant is about the calls (Sound): the row that a cursor was     *)
(* opened on had the version that the call gave; the rows a deletion has   *)
(* deleted and not committed are still what it deleted, since they are     *)
(* locked (Held) and belong to no other call (Apart); and what it has left *)
(* alone was written after its cursor was opened (Since).                  *)
(***************************************************************************)
EXTENDS StorageRows, TLAPS

\* The version that call q gave is one that was drawn, and is the version of
\* the row that its cursor was opened on.
Sound(q) ==
    /\ q.ver <= clock /\ q.opened <= clock
    /\ q.step # "found" => q.left = {} /\ q.gone = {}
    /\ q.op = "put" => q.gone = {}
    /\ q.op = "delete" => q.left \cup q.gone \subseteq {q.item}
    /\ q.step = "found" /\ q.op # "prune" =>
           q.seen[q.item] # NoRow /\ (q.ver = NoVersion \/ q.seen[q.item].ver = q.ver)

\* Rows deleted and not committed are as the cursor saw them.
Held(q) == \A i \in q.gone : row[i] # NoRow /\ row[i].ver = q.seen[i].ver

\* What a recursive deletion has not deleted and will not delete is new.
Since(q) ==
    q.step = "found" /\ q.op = "prune" =>
        \A i \in Item : \/ row[i] = NoRow
                        \/ row[i].ver > q.opened
                        \/ i \in q.left \cup q.gone /\ row[i].ver = q.seen[i].ver

Calls == \A c \in Client : call[c] # Idle => Sound(call[c]) /\ Held(call[c]) /\ Since(call[c])

Apart == \A c, d \in Client : call[c] # Idle /\ call[d] # Idle /\ c # d =>
             call[c].gone \cap call[d].gone = {}

Etags == \A c \in Client, i \in Item : etag[c][i] <= clock

IInv == TypeOK /\ Calls /\ Apart /\ Etags

USE DEF NoVersion

-----------------------------------------------------------------------------
LEMMA Distinct ==
    /\ \A r \in Row : r # NoRow
    /\ \A n \in Nat : n # NoRow
    /\ MaxRequests \in Nat /\ MaxFaults \in Nat
BY ConstantsOK DEF Row

LEMMA InitIInv ==
    ASSUME Init PROVE IInv
<1>1. TypeOK
    BY Distinct DEF Init, TypeOK, NoRows, Rows
<1>2. Calls /\ Apart
    BY DEF Init, Calls, Apart
<1>3. Etags
    BY DEF Init, Etags
<1>. QED
    BY <1>1, <1>2, <1>3 DEF IInv

\* A row that is there has a version that was drawn.
LEMMA RowVersion ==
    ASSUME IInv, NEW i \in Item, row[i] # NoRow
    PROVE  row[i] \in Row /\ row[i].ver \in Nat \ {0} /\ row[i].dated \in BOOLEAN /\ row[i].ver <= clock
BY DEF IInv, TypeOK, Rows, Row

LEMMA CallType ==
    ASSUME IInv, NEW c \in Client, call[c] # Idle
    PROVE  /\ call[c] \in Call
           /\ call[c].op \in {"put", "delete", "prune"} /\ call[c].item \in Item
           /\ call[c].ver \in Nat /\ call[c].dated \in BOOLEAN /\ call[c].opened \in Nat
           /\ call[c].step \in {"sent", "found", "missing"}
           /\ call[c].seen \in Rows /\ call[c].left \in SUBSET Item /\ call[c].gone \in SUBSET Item
           /\ Sound(call[c]) /\ Held(call[c]) /\ Since(call[c])
<1>1. call[c] \in Call
    BY DEF IInv, TypeOK
<1>2. Sound(call[c]) /\ Held(call[c]) /\ Since(call[c])
    BY DEF IInv, Calls
<1>. QED
    BY <1>1, <1>2 DEF Call

-----------------------------------------------------------------------------
(* Steps that change no row.                                               *)

\* A call that ends leaves the others what they were.
LEMMA CallEnds ==
    ASSUME IInv, NEW c \in Client, End(c), UNCHANGED <<row, clock, expired, etag, started>>,
           faults' \in 0..MaxFaults
    PROVE  IInv'
<1>1. \A d \in Client : call'[d] = Idle \/ call'[d] = call[d]
    BY DEF IInv, TypeOK, End
<1>2. TypeOK'
    BY DEF IInv, TypeOK, End
<1>3. Calls'
    BY <1>1 DEF IInv, Calls, Sound, Held, Since
<1>4. Apart' /\ Etags'
    BY <1>1 DEF IInv, Apart, Etags
<1>. QED
    BY <1>2, <1>3, <1>4 DEF IInv

\* A call that goes on to be q, with q's own part of the invariant.
LEMMA CallGoesOn ==
    ASSUME IInv, NEW c \in Client, NEW q \in Call, call' = [call EXCEPT ![c] = q],
           UNCHANGED <<row, clock, expired, etag, faults>>, started' \in 0..MaxRequests,
           Sound(q), Held(q), Since(q),
           \A d \in Client \ {c} : call[d] # Idle => q.gone \cap call[d].gone = {}
    PROVE  IInv'
<1>1. \A d \in Client : (d = c /\ call'[d] = q) \/ (d # c /\ call'[d] = call[d])
    BY DEF IInv, TypeOK
<1>2. TypeOK'
    BY DEF IInv, TypeOK
<1>3. Calls'
    <2>1. ASSUME NEW d \in Client, call'[d] # Idle
          PROVE  Sound(call'[d]) /\ Held(call'[d]) /\ Since(call'[d])
        BY <1>1, <2>1 DEF IInv, Calls
    <2>. QED
        BY <2>1 DEF Calls, Sound, Held, Since
<1>4. Apart'
    BY <1>1 DEF IInv, Apart
<1>5. Etags'
    BY DEF IInv, Etags
<1>. QED
    BY <1>2, <1>3, <1>4, <1>5 DEF IInv

LEMMA GetStep ==
    ASSUME IInv, NEW c \in Client, NEW i \in Item, Get(c, i) PROVE IInv'
<1>1. /\ etag' = [etag EXCEPT ![c][i] = row[i].ver] /\ row[i] # NoRow
      /\ UNCHANGED <<row, clock, expired, call, started, faults>>
    BY DEF Get, Present
<1>2. row[i].ver \in Nat /\ row[i].ver <= clock
    BY <1>1, RowVersion
<1>3. TypeOK'
    BY <1>1, <1>2 DEF IInv, TypeOK
<1>4. Etags'
    BY <1>1, <1>2 DEF IInv, TypeOK, Etags
<1>5. Calls' /\ Apart'
    BY <1>1 DEF IInv, Calls, Sound, Held, Since, Apart
<1>. QED
    BY <1>3, <1>4, <1>5 DEF IInv

LEMMA AskStep ==
    ASSUME IInv, NEW c \in Client, NEW op \in {"put", "delete", "prune"}, NEW i \in Item,
           NEW v \in {NoVersion, etag[c][i]}, NEW d \in BOOLEAN, Ask(c, op, i, v, d)
    PROVE  IInv'
<1>. DEFINE q == [op |-> op, item |-> i, ver |-> v, dated |-> d, step |-> "sent",
                  seen |-> NoRows, opened |-> 0, left |-> {}, gone |-> {}]
<1>1. v \in Nat /\ clock \in Nat /\ v <= clock
    BY DEF IInv, TypeOK, Etags
<1>2. q \in Call
    BY <1>1 DEF Call, NoRows, Rows
<1>3. Sound(q) /\ Held(q) /\ Since(q)
    BY <1>1 DEF Sound, Held, Since
<1>4. started' \in 0..MaxRequests
    BY Distinct DEF IInv, TypeOK, Ask
<1>. HIDE DEF q
<1>5. q.gone = {}
    BY DEF q
<1>. QED
    BY <1>2, <1>3, <1>4, <1>5, CallGoesOn DEF Ask, q

LEMMA CheckStep ==
    ASSUME IInv, NEW c \in Client, CheckIfVersion(c) PROVE IInv'
<1>. DEFINE S == Target(call[c])
            m == [call[c] EXCEPT !.step = "missing"]
            f == [call[c] EXCEPT !.step = "found", !.opened = clock, !.left = S,
                                 !.seen = [j \in Item |-> IF j \in S THEN row[j] ELSE NoRow]]
<1>1. /\ call[c] # Idle /\ call[c].step = "sent"
      /\ UNCHANGED <<row, clock, expired, etag, started, faults>>
    BY DEF CheckIfVersion, At
<1>2. started' \in 0..MaxRequests /\ faults' \in 0..MaxFaults
    BY <1>1 DEF IInv, TypeOK
<1>3. call[c] \in Call /\ Sound(call[c]) /\ call[c].left = {} /\ call[c].gone = {}
      /\ call[c].op \in {"put", "delete", "prune"} /\ call[c].item \in Item
    BY <1>1, CallType DEF Sound
<1>4. CASE call' = [call EXCEPT ![c].step = "missing"]
    <2>1. m \in Call /\ call' = [call EXCEPT ![c] = m]
        BY <1>3, <1>4 DEF Call
    <2>2. m.gone = {} /\ m.left = {} /\ m.step = "missing" /\ m.ver = call[c].ver
          /\ m.opened = call[c].opened
        BY <1>3 DEF Call
    <2>3. Sound(m) /\ Held(m) /\ Since(m)
        BY <1>3, <2>2 DEF Sound, Held, Since
    <2>. QED
        BY <1>1, <1>2, <2>1, <2>2, <2>3, CallGoesOn
<1>5. ASSUME NEW i \in S, call[c].ver = NoVersion \/ row[i].ver = call[c].ver,
             call' = [call EXCEPT ![c] = f]
      PROVE  IInv'
    <2>1. S \in SUBSET Item /\ \A j \in S : row[j] # NoRow
        BY DEF Target, Present
    <2>2. [j \in Item |-> IF j \in S THEN row[j] ELSE NoRow] \in Rows /\ clock \in Nat
        BY DEF IInv, TypeOK, Rows
    <2>3. f \in Call
        BY <1>3, <2>1, <2>2 DEF Call
    <2>4. /\ f.gone = {} /\ f.left = S /\ f.step = "found" /\ f.ver = call[c].ver
          /\ f.opened = clock /\ f.op = call[c].op /\ f.item = call[c].item
          /\ \A j \in S : f.seen[j] = row[j]
        BY <1>3, <2>1 DEF Call
    <2>5. f.op # "prune" => S \subseteq {f.item} /\ i = f.item
        BY <1>5, <2>4 DEF Target
    <2>6. Sound(f)
        BY <1>3, <1>5, <2>1, <2>2, <2>4, <2>5 DEF Sound
    <2>7. Held(f)
        BY <2>4 DEF Held
    <2>8. Since(f)
        BY <2>4 DEF Since, Target, Present
    <2>. HIDE DEF f
    <2>. QED
        BY <1>1, <1>2, <1>5, <2>3, <2>4, <2>6, <2>7, <2>8, CallGoesOn
<1>6. CASE End(c)
    BY <1>1, <1>2, <1>6, CallEnds
<1>. QED
    BY <1>4, <1>5, <1>6 DEF CheckIfVersion

LEMMA DeleteNextStep ==
    ASSUME IInv, NEW c \in Client, NEW i \in Item, DeleteNext(c, i) PROVE IInv'
<1>. DEFINE q == call[c]
            g == IF Current(c, i) THEN q.gone \cup {i} ELSE q.gone
            f == [q EXCEPT !.left = @ \ {i}, !.gone = g]
<1>1. /\ q # Idle /\ q.step = "found" /\ q.op # "put" /\ i \in q.left /\ ~Locked(i)
      /\ call' = [call EXCEPT ![c] = f]
      /\ UNCHANGED <<row, clock, expired, etag, started, faults>>
    BY DEF DeleteNext, At
<1>2. started' \in 0..MaxRequests
    BY <1>1 DEF IInv, TypeOK
<1>3. q \in Call /\ Sound(q) /\ Held(q) /\ Since(q) /\ q.left \in SUBSET Item /\ q.gone \in SUBSET Item
    BY <1>1, CallType
<1>4. f \in Call
    BY <1>3 DEF Call
<1>5. /\ f.left = q.left \ {i} /\ f.gone = g /\ f.seen = q.seen /\ f.opened = q.opened
      /\ f.op = q.op /\ f.item = q.item /\ f.ver = q.ver /\ f.step = q.step
    BY <1>3 DEF Call
<1>6. Sound(f)
    BY <1>1, <1>3, <1>5 DEF Sound
<1>7. Held(f)
    BY <1>3, <1>5 DEF Held, Current, Present
<1>8. Since(f)
    <2>. HIDE DEF f
    <2>1. CASE Current(c, i)
        BY <1>3, <1>5, <2>1 DEF Since
    <2>2. CASE ~Current(c, i)
        <3>1. row[i] = NoRow \/ row[i].ver # q.seen[i].ver
            BY <2>2 DEF Current, Present
        <3>. QED
            BY <1>3, <1>5, <2>2, <3>1 DEF Since
    <2>. QED
        BY <2>1, <2>2
<1>9. \A d \in Client \ {c} : call[d] # Idle => f.gone \cap call[d].gone = {}
    BY <1>1, <1>5 DEF IInv, Apart, Locked
<1>. HIDE DEF f
<1>. QED
    BY <1>1, <1>2, <1>4, <1>6, <1>7, <1>8, <1>9, CallGoesOn

-----------------------------------------------------------------------------
(* Steps that write or remove rows.                                        *)

\* A put writes row i, that no deletion holds.
LEMMA WriteStep ==
    ASSUME IInv, NEW c \in Client, NEW i \in Item, NEW dated \in BOOLEAN, Write(c, i, dated),
           \A d \in Client : call[d] # Idle => i \notin call[d].gone,
           expired' \in SUBSET expired, i \in expired' => dated
    PROVE  IInv'
<1>. DEFINE r == [ver |-> clock + 1, dated |-> dated]
<1>1. /\ row' = [row EXCEPT ![i] = r] /\ clock' = clock + 1
      /\ etag' = [etag EXCEPT ![c][i] = clock + 1] /\ End(c)
      /\ UNCHANGED <<started, faults>>
    BY DEF Write
<1>2. clock \in Nat /\ clock' \in Nat /\ clock < clock'
    BY <1>1 DEF IInv, TypeOK
<1>3. r \in Row /\ r.ver = clock' /\ r.dated = dated /\ r # NoRow
    BY <1>1, <1>2, Distinct DEF Row
<1>. HIDE DEF r
<1>4. row'[i] = r /\ \A j \in Item \ {i} : row'[j] = row[j]
    BY <1>1 DEF IInv, TypeOK, Rows
<1>5. \A d \in Client : call'[d] = Idle \/ call'[d] = call[d]
    BY <1>1 DEF IInv, TypeOK, End
<1>6. TypeOK'
    <2>1. row' \in Rows
        BY <1>1, <1>3 DEF IInv, TypeOK, Rows
    <2>2. \A j \in Item : row'[j] # NoRow => row'[j].ver <= clock'
        <3>1. \A j \in Item : row[j] # NoRow => row[j].ver \in Nat /\ row[j].ver <= clock
            BY RowVersion
        <3>. QED
            BY <1>2, <1>3, <1>4, <3>1
    <2>3. \A j \in expired' : row'[j] # NoRow /\ row'[j].dated
        BY <1>3, <1>4 DEF IInv, TypeOK
    <2>4. call' \in [Client -> Call \cup {Idle}]
        BY <1>1 DEF IInv, TypeOK, End
    <2>5. etag' \in [Client -> [Item -> Nat]] /\ expired' \in SUBSET Item
        BY <1>1, <1>2 DEF IInv, TypeOK
    <2>. QED
        BY <1>1, <1>2, <2>1, <2>2, <2>3, <2>4, <2>5 DEF IInv, TypeOK
<1>7. ASSUME NEW d \in Client, call'[d] # Idle
      PROVE  Sound(call[d])' /\ Held(call[d])' /\ Since(call[d])'
    <2>1. call'[d] = call[d] /\ call[d] # Idle
        BY <1>5, <1>7
    <2>2. /\ Sound(call[d]) /\ Held(call[d]) /\ Since(call[d])
          /\ call[d].opened \in Nat /\ call[d].ver \in Nat /\ call[d].gone \in SUBSET Item
        BY <2>1, CallType
    <2>3. Sound(call[d])'
        BY <1>2, <2>1, <2>2 DEF Sound
    <2>4. Held(call[d])'
        BY <1>4, <2>1, <2>2 DEF Held
    <2>5. r.ver > call[d].opened
        BY <1>2, <1>3, <2>2 DEF Sound
    <2>6. Since(call[d])'
        BY <1>4, <2>1, <2>2, <2>5 DEF Since
    <2>. QED
        BY <2>3, <2>4, <2>6
<1>8. Calls' /\ Apart'
    BY <1>5, <1>7 DEF IInv, Calls, Apart
<1>9. Etags'
    <2>1. \A d \in Client, j \in Item : etag'[d][j] = clock' \/ etag'[d][j] = etag[d][j]
        BY <1>1 DEF IInv, TypeOK
    <2>. QED
        BY <1>2, <2>1 DEF IInv, TypeOK, Etags
<1>. QED
    BY <1>6, <1>8, <1>9 DEF IInv

LEMMA UpdateStep ==
    ASSUME IInv, NEW c \in Client, Update(c) PROVE IInv'
<1>. DEFINE i == call[c].item
            dated == call[c].dated \/ row[i].dated
<1>1. call[c] # Idle /\ Present(i) /\ ~Locked(i) /\ Write(c, i, dated)
    BY DEF Update, At, Current
<1>2. i \in Item /\ call[c].dated \in BOOLEAN
    BY <1>1, CallType
<1>3. row[i].dated \in BOOLEAN
    BY <1>1, <1>2, RowVersion DEF Present
<1>4. expired' \in SUBSET expired /\ (i \in expired' => dated)
    BY <1>1, <1>2 DEF Update, IInv, TypeOK
<1>5. \A d \in Client : call[d] # Idle => i \notin call[d].gone
    BY <1>1 DEF Locked
<1>6. dated \in BOOLEAN
    OBVIOUS
<1>. HIDE DEF dated, i
<1>. QED
    BY <1>1, <1>2, <1>4, <1>5, <1>6, WriteStep

LEMMA InsertStep ==
    ASSUME IInv, NEW c \in Client, Insert(c) PROVE IInv'
<1>. DEFINE i == call[c].item
<1>1. call[c] # Idle /\ row[i] = NoRow /\ Write(c, i, call[c].dated) /\ expired' = expired
    BY DEF Insert, At, Present
<1>2. i \in Item /\ call[c].dated \in BOOLEAN
    BY <1>1, CallType
<1>3. i \notin expired
    BY <1>1 DEF IInv, TypeOK
<1>4. \A d \in Client : call[d] # Idle => i \notin call[d].gone
    BY <1>1 DEF IInv, Calls, Held
<1>. QED
    BY <1>1, <1>2, <1>3, <1>4, WriteStep

\* The rows of S, that no other deletion holds, are removed.
LEMMA RemoveStep ==
    ASSUME IInv, NEW S \in SUBSET Item, Remove(S), call' \in [Client -> Call \cup {Idle}],
           \A d \in Client : call'[d] = Idle \/ (call'[d] = call[d] /\ call[d].gone \cap S = {}),
           UNCHANGED <<etag, started, faults>>
    PROVE  IInv'
<1>1. /\ row' = [i \in Item |-> IF i \in S THEN NoRow ELSE row[i]]
      /\ expired' = expired \ S /\ clock' = clock
    BY DEF Remove
<1>2. TypeOK'
    <2>1. row' \in Rows
        BY <1>1 DEF IInv, TypeOK, Rows
    <2>. QED
        BY <1>1, <2>1 DEF IInv, TypeOK
<1>3. ASSUME NEW d \in Client, call'[d] # Idle
      PROVE  Sound(call[d])' /\ Held(call[d])' /\ Since(call[d])'
    <2>1. call'[d] = call[d] /\ call[d] # Idle /\ call[d].gone \cap S = {}
        BY <1>3
    <2>2. Sound(call[d]) /\ Held(call[d]) /\ Since(call[d]) /\ call[d].gone \in SUBSET Item
        BY <2>1, CallType
    <2>3. Sound(call[d])'
        BY <1>1, <2>1, <2>2 DEF Sound
    <2>4. Held(call[d])'
        BY <1>1, <2>1, <2>2 DEF Held
    <2>5. Since(call[d])'
        BY <1>1, <2>1, <2>2 DEF Since
    <2>. QED
        BY <2>3, <2>4, <2>5
<1>4. Calls' /\ Apart' /\ Etags'
    BY <1>1, <1>3 DEF IInv, Calls, Apart, Etags
<1>. QED
    BY <1>2, <1>4 DEF IInv

LEMMA DeleteEndsStep ==
    ASSUME IInv, NEW c \in Client, DeleteEnds(c) PROVE IInv'
<1>1. call[c] # Idle /\ Remove(call[c].gone) /\ End(c) /\ UNCHANGED <<etag, started, faults>>
    BY DEF DeleteEnds, At
<1>2. call[c].gone \in SUBSET Item
    BY <1>1, CallType
<1>3. call' \in [Client -> Call \cup {Idle}]
    BY <1>1 DEF IInv, TypeOK, End
<1>4. \A d \in Client : call'[d] = Idle \/ (call'[d] = call[d] /\ call[d].gone \cap call[c].gone = {})
    BY <1>1 DEF IInv, TypeOK, End, Apart
<1>. QED
    BY <1>1, <1>2, <1>3, <1>4, RemoveStep

LEMMA PurgeStep ==
    ASSUME IInv, PurgeExpiredItems PROVE IInv'
<1>1. Remove(expired) /\ UNCHANGED <<call, etag, started, faults>> /\ \A i \in expired : ~Locked(i)
    BY DEF PurgeExpiredItems
<1>2. expired \in SUBSET Item /\ call' \in [Client -> Call \cup {Idle}]
    BY <1>1 DEF IInv, TypeOK
<1>3. \A d \in Client : call'[d] = Idle \/ (call'[d] = call[d] /\ call[d].gone \cap expired = {})
    BY <1>1 DEF Locked
<1>. QED
    BY <1>1, <1>2, <1>3, RemoveStep

LEMMA ExpireStep ==
    ASSUME IInv, NEW i \in Item, Expire(i) PROVE IInv'
<1>1. TypeOK'
    BY DEF IInv, TypeOK, Expire, Present
<1>2. Calls' /\ Apart' /\ Etags'
    BY DEF IInv, Expire, Calls, Sound, Held, Since, Apart, Etags
<1>. QED
    BY <1>1, <1>2 DEF IInv

LEMMA NextIInv ==
    ASSUME IInv, [Next]_vars PROVE IInv'
<1>1. CASE UNCHANGED vars
    BY <1>1 DEF vars, IInv, TypeOK, Calls, Sound, Held, Since, Apart, Etags
<1>2. ASSUME NEW c \in Client, NEW i \in Item,
             Get(c, i) \/ StoragePut(c, i) \/ StorageDelete(c, i) \/ StoragePrune(c, i) \/ DeleteNext(c, i)
      PROVE  IInv'
    BY <1>2, GetStep, AskStep, DeleteNextStep DEF StoragePut, StorageDelete, StoragePrune
<1>3. ASSUME NEW c \in Client, UpdateNothing(c) \/ NothingDone(c) \/ Fails(c)
      PROVE  IInv'
    <2>1. faults' \in 0..MaxFaults
        BY <1>3, Distinct DEF IInv, TypeOK, UpdateNothing, NothingDone, Fails
    <2>2. End(c) /\ UNCHANGED <<row, clock, expired, etag, started>>
        BY <1>3 DEF UpdateNothing, NothingDone, Fails
    <2>. QED
        BY <2>1, <2>2, CallEnds
<1>4. ASSUME NEW c \in Client, CheckIfVersion(c) \/ Update(c) \/ Insert(c) \/ DeleteEnds(c)
      PROVE  IInv'
    BY <1>4, CheckStep, UpdateStep, InsertStep, DeleteEndsStep
<1>5. CASE (\E i \in Item : Expire(i)) \/ PurgeExpiredItems
    BY <1>5, ExpireStep, PurgeStep
<1>. QED
    BY <1>1, <1>2, <1>3, <1>4, <1>5 DEF Next

LEMMA Inductive == Spec => []IInv
<1>. QED
    BY InitIInv, NextIInv, PTL DEF Spec

\* Every state has its type: versions are at most the last one drawn, and only
\* a row with `expires` is expired.
THEOREM TypeCorrect == Spec => []TypeOK
<1>1. IInv => TypeOK
    BY DEF IInv
<1>. QED
    BY <1>1, Inductive, PTL

\* A recursive deletion (storageDelete, deleteEntity) that succeeds leaves only
\* what was written since its cursor was opened.
THEOREM PruneLeaves == Spec => PruneLeavesOnlyNew
<1>1. ASSUME IInv, NEW c \in Client, DeleteEnds(c), call[c].op = "prune",
             NEW i \in Item, row'[i] # NoRow
      PROVE  row'[i].ver > call[c].opened
    <2>1. /\ call[c] # Idle /\ call[c].step = "found" /\ call[c].left = {}
          /\ row' = [j \in Item |-> IF j \in call[c].gone THEN NoRow ELSE row[j]]
        BY <1>1 DEF DeleteEnds, At, Remove
    <2>2. i \notin call[c].gone /\ row'[i] = row[i]
        BY <1>1, <2>1
    <2>. QED
        BY <1>1, <2>1, <2>2, CallType DEF Since
<1>2. IInv => \A c \in Client : DeleteEnds(c) /\ call[c].op = "prune" =>
                  \A i \in Item : row'[i] # NoRow => row'[i].ver > call[c].opened
    BY <1>1
<1>. QED
    BY <1>2, Inductive, PTL DEF PruneLeavesOnlyNew

-----------------------------------------------------------------------------
(* The contract.  Store and Asked are what its variables are here.          *)

LEMMA InitContract ==
    ASSUME Init PROVE Contract!Init
BY DEF Init, Contract!Init, Store, Asked, NoRows

\* What a call looks like to the contract.
LEMMA AskedOf ==
    ASSUME IInv, NEW c \in Client
    PROVE  /\ call[c] = Idle => Asked[c] = Idle
           /\ call[c] # Idle => /\ Asked[c] \in Contract!Ask /\ Asked[c] # Idle
                                /\ Asked[c].op = call[c].op /\ Asked[c].etag = call[c].ver
                                /\ call[c].op # "prune" => Asked[c].item = call[c].item
<1>1. CASE call[c] = Idle
    BY <1>1 DEF Asked
<1>2. CASE call[c] # Idle
    <2>. DEFINE p == [op |-> "prune", etag |-> call[c].ver]
                w == [op |-> call[c].op, item |-> call[c].item, etag |-> call[c].ver]
    <2>1. call[c].op \in {"put", "delete", "prune"} /\ call[c].item \in Item /\ call[c].ver \in 0..clock
        BY <1>2, CallType DEF Sound, IInv, TypeOK
    <2>2. CASE call[c].op = "prune"
        <3>1. Asked[c] = p /\ p \in Contract!Ask
            BY <1>2, <2>1, <2>2 DEF Asked, Contract!Ask
        <3>. QED
            BY <1>2, <2>1, <2>2, <3>1, ConstantsOK
    <2>3. CASE call[c].op # "prune"
        <3>1. Asked[c] = w /\ w \in Contract!Ask
            BY <1>2, <2>1, <2>3 DEF Asked, Contract!Ask
        <3>. QED
            BY <1>2, <2>1, <2>3, <3>1, ConstantsOK
    <2>. QED
        BY <2>2, <2>3
<1>. QED
    BY <1>1, <1>2

\* A call that ends is answered, and the other clients see nothing.
LEMMA EndAnswers ==
    ASSUME IInv, NEW c \in Client, call[c] # Idle, End(c) PROVE Contract!Answer(c)
<1>1. call' = [call EXCEPT ![c] = Idle] /\ call \in [Client -> Call \cup {Idle}]
    BY DEF End, IInv, TypeOK
<1>2. Asked' = [Asked EXCEPT ![c] = Idle]
    BY <1>1 DEF Asked
<1>. QED
    BY <1>2, AskedOf DEF Contract!Answer

\* A call that goes on asks what it asked.
LEMMA SameAsked ==
    ASSUME IInv, IInv', NEW c \in Client, NEW q, call[c] # Idle, q # Idle,
           q.op = call[c].op, q.item = call[c].item, q.ver = call[c].ver,
           call' = [call EXCEPT ![c] = q]
    PROVE  Asked' = Asked
<1>1. \A d \in Client : (d = c /\ call'[d] = q) \/ (d # c /\ call'[d] = call[d])
    BY DEF IInv, TypeOK
<1>. QED
    BY <1>1 DEF Asked

LEMMA RequestStep ==
    ASSUME IInv, IInv', NEW c \in Client, NEW op \in {"put", "delete", "prune"}, NEW i \in Item,
           NEW v \in {NoVersion, etag[c][i]}, NEW d \in BOOLEAN, Ask(c, op, i, v, d)
    PROVE  Contract!Request(c)
<1>. DEFINE q == [op |-> op, item |-> i, ver |-> v, dated |-> d, step |-> "sent",
                  seen |-> NoRows, opened |-> 0, left |-> {}, gone |-> {}]
<1>1. /\ call[c] = Idle /\ call' = [call EXCEPT ![c] = q]
      /\ UNCHANGED <<row, clock>>
    BY DEF Ask
<1>2. call'[c] = q /\ \A e \in Client : e # c => call'[e] = call[e]
    BY <1>1 DEF IInv, TypeOK
<1>3. v \in Nat
    BY DEF IInv, TypeOK
<1>4. q \in Call
    BY <1>3 DEF Call, NoRows, Rows
<1>5. q # Idle
    BY <1>4, ConstantsOK
<1>6. Asked'[c] \in Contract!Ask
    <2>1. clock' = clock
        BY <1>1
    <2>2. v \in 0..clock
        BY DEF IInv, TypeOK, Etags
    <2>3. CASE op = "prune"
        BY <1>2, <1>5, <2>1, <2>2, <2>3 DEF Asked, Contract!Ask
    <2>4. CASE op # "prune"
        BY <1>2, <1>5, <2>1, <2>2, <2>4 DEF Asked, Contract!Ask
    <2>. QED
        BY <2>3, <2>4
<1>7. Asked' = [Asked EXCEPT ![c] = Asked'[c]]
    BY <1>2 DEF Asked
<1>8. Asked[c] = Idle /\ UNCHANGED <<Store, clock>>
    BY <1>1, AskedOf DEF Store
<1>. QED
    BY <1>6, <1>7, <1>8 DEF Contract!Request

LEMMA RefuseStep ==
    ASSUME IInv, NEW c \in Client, call[c] # Idle, End(c), UNCHANGED <<row, clock>>
    PROVE  Contract!Refuse(c)
<1>1. UNCHANGED <<Store, clock>>
    BY DEF Store
<1>. QED
    BY <1>1, EndAnswers DEF Contract!Refuse

\* A put writes the row of its item when there is none, or when it is the one
\* that the etag stands for.
LEMMA PutStep ==
    ASSUME IInv, NEW c \in Client, NEW dated \in BOOLEAN, call[c] # Idle, call[c].op = "put",
           Write(c, call[c].item, dated),
           LET i == call[c].item IN
               row[i] = NoRow \/ call[c].ver = NoVersion \/ row[i].ver = call[c].ver
    PROVE  Contract!Put(c)
<1>. DEFINE i == call[c].item
            r == [ver |-> clock + 1, dated |-> dated]
<1>1. row' = [row EXCEPT ![i] = r] /\ clock' = clock + 1 /\ End(c)
    BY DEF Write
<1>2. i \in Item /\ clock \in Nat
    BY CallType DEF IInv, TypeOK
<1>3. r # NoRow /\ r.ver = clock + 1
    BY <1>2, ConstantsOK DEF Row
<1>. HIDE DEF r
<1>4. Store' = [Store EXCEPT ![i] = clock + 1]
    BY <1>1, <1>2, <1>3 DEF Store, IInv, TypeOK, Rows
<1>5. /\ Asked[c].op = "put" /\ Asked[c].item = i /\ Asked[c].etag = call[c].ver
    BY AskedOf
<1>6. Store[i] = NoRow \/ Asked[c].etag = 0 \/ Store[i] = Asked[c].etag
    BY <1>2, <1>5 DEF Store
<1>7. Contract!Answer(c)
    BY <1>1, EndAnswers
<1>. QED
    BY <1>1, <1>4, <1>5, <1>6, <1>7 DEF Contract!Put, Contract!Matches, Contract!AnyEtag

LEMMA RemoveClears ==
    ASSUME NEW S \in SUBSET Item, Remove(S) PROVE Contract!Clear(S)
BY DEF Remove, Contract!Clear, Store

\* A deletion removes the one row that its etag stands for, or the rows that
\* it went through and no other call had changed.
LEMMA DeleteEndsRefines ==
    ASSUME IInv, NEW c \in Client, DeleteEnds(c)
    PROVE  Contract!Delete(c) \/ Contract!Prune(c) \/ Contract!Refuse(c)
<1>. DEFINE q == call[c]
<1>1. q # Idle /\ q.step = "found" /\ q.op # "put" /\ Remove(q.gone) /\ End(c)
    BY DEF DeleteEnds, At
<1>2. /\ q.op \in {"put", "delete", "prune"} /\ q.item \in Item /\ q.gone \in SUBSET Item
      /\ Sound(q) /\ Held(q)
    BY <1>1, CallType
<1>3. Contract!Clear(q.gone) /\ Contract!Answer(c)
    BY <1>1, <1>2, RemoveClears, EndAnswers
<1>4. CASE q.op = "prune"
    BY <1>1, <1>2, <1>3, <1>4, AskedOf DEF Contract!Prune
<1>5. CASE q.op = "delete" /\ q.gone = {q.item}
    <2>1. Asked[c].op = "delete" /\ Asked[c].item = q.item /\ Asked[c].etag = q.ver
        BY <1>1, <1>5, AskedOf
    <2>2. row[q.item] # NoRow /\ row[q.item].ver \in Nat /\ row[q.item].ver = q.seen[q.item].ver
        BY <1>2, <1>5, RowVersion DEF Held
    <2>3. Store[q.item] = row[q.item].ver /\ Store[q.item] # NoRow
        BY <1>2, <2>2, Distinct DEF Store
    <2>4. q.ver = 0 \/ Store[q.item] = q.ver
        BY <1>1, <1>2, <1>5, <2>2, <2>3 DEF Sound
    <2>. QED
        BY <1>3, <1>5, <2>1, <2>3, <2>4 DEF Contract!Delete, Contract!Matches, Contract!AnyEtag
<1>6. CASE q.op = "delete" /\ q.gone = {}
    <2>1. row' = row /\ clock' = clock
        BY <1>1, <1>6 DEF Remove, IInv, TypeOK, Rows
    <2>. QED
        BY <1>1, <2>1, RefuseStep
<1>7. q.op = "delete" => q.gone = {} \/ q.gone = {q.item}
    BY <1>2 DEF Sound
<1>. QED
    BY <1>1, <1>2, <1>4, <1>5, <1>6, <1>7

LEMMA NextContract ==
    ASSUME IInv, IInv', [Next]_vars
    PROVE  [Contract!Next]_(Contract!contractVars)
<1>1. CASE UNCHANGED vars
    BY <1>1 DEF vars, Contract!contractVars, Store, Asked
<1>2. ASSUME NEW c \in Client, NEW i \in Item, Get(c, i) \/ Expire(i)
      PROVE  UNCHANGED Contract!contractVars
    BY <1>2 DEF Get, Expire, Contract!contractVars, Store, Asked
<1>3. ASSUME NEW c \in Client, NEW i \in Item, StoragePut(c, i) \/ StorageDelete(c, i) \/ StoragePrune(c, i)
      PROVE  Contract!Request(c)
    BY <1>3, RequestStep DEF StoragePut, StorageDelete, StoragePrune
<1>4. ASSUME NEW c \in Client, NEW i \in Item, DeleteNext(c, i)
      PROVE  UNCHANGED Contract!contractVars
    <2>. DEFINE q == call[c]
                f == [q EXCEPT !.left = @ \ {i},
                               !.gone = IF Current(c, i) THEN q.gone \cup {i} ELSE q.gone]
    <2>1. q # Idle /\ call' = [call EXCEPT ![c] = f] /\ UNCHANGED <<row, clock>>
        BY <1>4 DEF DeleteNext, At
    <2>2. q \in Call
        BY <2>1, CallType
    <2>3. f.op = q.op /\ f.item = q.item /\ f.ver = q.ver
        BY <2>2 DEF Call
    <2>4. f \in Call
        BY <1>4, <2>2 DEF Call
    <2>5. f # Idle
        BY <2>4, ConstantsOK
    <2>. HIDE DEF f
    <2>6. Asked' = Asked
        BY <2>1, <2>3, <2>5, SameAsked
    <2>. QED
        BY <2>1, <2>6 DEF Contract!contractVars, Store
<1>5. ASSUME NEW c \in Client, CheckIfVersion(c)
      PROVE  Contract!Refuse(c) \/ UNCHANGED Contract!contractVars
    <2>1. call[c] # Idle /\ UNCHANGED <<row, clock>>
        BY <1>5 DEF CheckIfVersion, At
    <2>2. CASE End(c)
        BY <2>1, <2>2, RefuseStep
    <2>3. ASSUME NEW q \in Call, call' = [call EXCEPT ![c] = q],
                 q.op = call[c].op, q.item = call[c].item, q.ver = call[c].ver
          PROVE  UNCHANGED Contract!contractVars
        <3>1. Asked' = Asked
            BY <2>1, <2>3, ConstantsOK, SameAsked
        <3>. QED
            BY <2>1, <3>1 DEF Contract!contractVars, Store
    <2>4. call[c] \in Call
        BY <2>1, CallType
    <2>5. CASE call' = [call EXCEPT ![c].step = "missing"]
        <3>. DEFINE m == [call[c] EXCEPT !.step = "missing"]
        <3>1. m \in Call /\ m.op = call[c].op /\ m.item = call[c].item /\ m.ver = call[c].ver
            BY <2>4 DEF Call
        <3>2. call' = [call EXCEPT ![c] = m]
            BY <2>5
        <3>. QED
            BY <2>3, <3>1, <3>2
    <2>6. ASSUME call' = [call EXCEPT ![c] =
                    [call[c] EXCEPT !.step = "found", !.opened = clock, !.left = Target(call[c]),
                       !.seen = [j \in Item |-> IF j \in Target(call[c]) THEN row[j] ELSE NoRow]]]
          PROVE  UNCHANGED Contract!contractVars
        <3>. DEFINE S == Target(call[c])
                    seen == [j \in Item |-> IF j \in S THEN row[j] ELSE NoRow]
                    f == [call[c] EXCEPT !.step = "found", !.opened = clock, !.left = S, !.seen = seen]
        <3>1. S \in SUBSET Item /\ seen \in Rows /\ clock \in Nat
            BY DEF Target, IInv, TypeOK, Rows
        <3>. HIDE DEF S, seen
        <3>2. f \in Call /\ f.op = call[c].op /\ f.item = call[c].item /\ f.ver = call[c].ver
            BY <2>4, <3>1 DEF Call
        <3>3. call' = [call EXCEPT ![c] = f]
            BY <2>6 DEF S, seen
        <3>. QED
            BY <2>3, <3>2, <3>3
    <2>. QED
        BY <1>5, <2>2, <2>5, <2>6 DEF CheckIfVersion
<1>6. ASSUME NEW c \in Client, Update(c)
      PROVE  Contract!Put(c)
    <2>. DEFINE i == call[c].item
    <2>1. /\ call[c] # Idle /\ call[c].op = "put" /\ call[c].step = "found"
          /\ row[i] # NoRow /\ row[i].ver = call[c].seen[i].ver
          /\ Write(c, i, call[c].dated \/ row[i].dated)
        BY <1>6 DEF Update, At, Current, Present
    <2>2. call[c].ver = NoVersion \/ row[i].ver = call[c].ver
        BY <2>1, CallType DEF Sound
    <2>3. (call[c].dated \/ row[i].dated) \in BOOLEAN
        OBVIOUS
    <2>. QED
        BY <2>1, <2>2, <2>3, PutStep
<1>7. ASSUME NEW c \in Client, Insert(c)
      PROVE  Contract!Put(c)
    <2>1. /\ call[c] # Idle /\ call[c].op = "put" /\ row[call[c].item] = NoRow
          /\ Write(c, call[c].item, call[c].dated)
        BY <1>7 DEF Insert, At, Present
    <2>. QED
        BY <2>1, CallType, PutStep
<1>8. ASSUME NEW c \in Client, UpdateNothing(c) \/ NothingDone(c) \/ Fails(c)
      PROVE  Contract!Refuse(c)
    BY <1>8, RefuseStep DEF UpdateNothing, NothingDone, Fails, At
<1>9. CASE PurgeExpiredItems
    <2>1. Remove(expired) /\ call' = call /\ expired \in SUBSET Item
        BY <1>9 DEF PurgeExpiredItems, IInv, TypeOK
    <2>2. Asked' = Asked
        BY <2>1 DEF Asked
    <2>. QED
        BY <2>1, <2>2, RemoveClears DEF Contract!Purge, Contract!Next
<1>10. ASSUME NEW i \in Item, Expire(i)
       PROVE  UNCHANGED Contract!contractVars
    BY <1>10 DEF Expire, Contract!contractVars, Store, Asked
<1>. QED
    BY <1>1, <1>2, <1>3, <1>4, <1>5, <1>6, <1>7, <1>8, <1>9, <1>10, DeleteEndsRefines
       DEF Next, Contract!Next

\* Although the version is checked in one statement and the row is changed in
\* another (update_if_version, delete_if_version), a put or a deletion takes
\* effect at one moment, on the state that its etag stands for.
THEOREM Atomic == Spec => ImplementsContract
<1>1. Init => Contract!Init
    BY InitContract
<1>2. IInv /\ IInv' /\ [Next]_vars => [Contract!Next]_(Contract!contractVars)
    BY NextContract
<1>. QED
    BY <1>1, <1>2, Inductive, PTL DEF Spec, ImplementsContract, Contract!Spec

=============================================================================
