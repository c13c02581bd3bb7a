---------------------------- MODULE StorageRows ----------------------------
(***************************************************************************)
(* The storage API over the `entity` table, statement by statement.        *)
(*                                                                         *)
(* A put or a deletion calls one SQL function, and its transaction ends    *)
(* with it; but inside the function every statement sees the table as it   *)
(* is then (READ COMMITTED).  check_if_version opens a cursor, without     *)
(* FOR UPDATE, and compares the version of its first row; the row is then  *)
(* updated or deleted WHERE CURRENT OF the cursor, which has no effect if  *)
(* the row has changed since the cursor was opened (PostgreSQL, DECLARE).  *)
(* Rows that a deletion has deleted stay locked until it ends.             *)
(*                                                                         *)
(* Item is the items under one path; the data of an item is told by its    *)
(* version.                                                                *)
(***************************************************************************)
EXTENDS Naturals

CONSTANTS
    Item, Client,
    NoRow,          \* no row for an item
    Idle,           \* a client that waits for nothing
    MaxRequests,    \* bound: requests in all
    MaxFaults       \* bound: statements that time out

VARIABLES
    row,        \* the rows of the table: version, and whether `expires` is set
    clock,      \* the last version drawn
    expired,    \* the items whose `expires` is past
    call,       \* what each client has asked for, and how far it is
    etag,       \* the version of each item that each client saw last
    started, faults

vars == <<row, clock, expired, call, etag, started, faults>>

NoVersion == 0
Row == [ver : Nat \ {NoVersion}, dated : BOOLEAN]
Rows == [Item -> Row \cup {NoRow}]

\* seen: the rows the cursor goes through; opened: when; left: those to come;
\* gone: those deleted and not committed.
Call == [op : {"put", "delete", "prune"}, item : Item, ver : Nat, dated : BOOLEAN,
         step : {"sent", "found", "missing"}, seen : Rows, opened : Nat,
         left : SUBSET Item, gone : SUBSET Item]

\* Idle is neither a call nor what a client of the contract asks for.
ASSUME ConstantsOK ==
    /\ NoRow \notin Nat /\ NoRow \notin Row
    /\ Idle \notin Call
    /\ Idle \notin [op : {"put", "delete"}, item : Item, etag : Nat]
    /\ Idle \notin [op : {"prune"}, etag : Nat]
    /\ {MaxRequests, MaxFaults} \subseteq Nat

NoRows == [i \in Item |-> NoRow]

TypeOK ==
    /\ row \in Rows /\ clock \in Nat
    /\ expired \in SUBSET Item
    /\ call \in [Client -> Call \cup {Idle}]
    /\ etag \in [Client -> [Item -> Nat]]
    /\ started \in 0..MaxRequests /\ faults \in 0..MaxFaults
    /\ \A i \in Item : row[i] # NoRow => row[i].ver <= clock
    /\ \A i \in expired : row[i] # NoRow /\ row[i].dated

Init ==
    /\ row = NoRows /\ clock = 0 /\ expired = {}
    /\ call = [c \in Client |-> Idle]
    /\ etag = [c \in Client |-> [i \in Item |-> NoVersion]]
    /\ started = 0 /\ faults = 0

Present(i) == row[i] # NoRow
At(c, step) == call[c] # Idle /\ call[c].step = step
Locked(i) == \E c \in Client : call[c] # Idle /\ i \in call[c].gone
End(c) == call' = [call EXCEPT ![c] = Idle]

-----------------------------------------------------------------------------
\* storageGet, and the list, leave out expired rows.
Get(c, i) ==
    /\ call[c] = Idle
    /\ Present(i) /\ i \notin expired
    /\ etag' = [etag EXCEPT ![c][i] = row[i].ver]
    /\ UNCHANGED <<row, clock, expired, call, started, faults>>

\* A request arrives: with the etag that the client has, or without one.
Ask(c, op, i, v, dated) ==
    /\ call[c] = Idle /\ started < MaxRequests
    /\ started' = started + 1
    /\ call' = [call EXCEPT ![c] =
                  [op |-> op, item |-> i, ver |-> v, dated |-> dated, step |-> "sent",
                   seen |-> NoRows, opened |-> 0, left |-> {}, gone |-> {}]]
    /\ UNCHANGED <<row, clock, expired, etag, faults>>

StoragePut(c, i) == \E v \in {NoVersion, etag[c][i]}, d \in BOOLEAN : Ask(c, "put", i, v, d)
StorageDelete(c, i) == \E v \in {NoVersion, etag[c][i]} : Ask(c, "delete", i, v, FALSE)
StoragePrune(c, i) == \E v \in {NoVersion, etag[c][i]} : Ask(c, "prune", i, v, FALSE)

\* The rows that call q is about.
Target(q) == {i \in Item : Present(i) /\ (q.op = "prune" \/ i = q.item)}

\* check_if_version: the cursor is opened; without a row the function goes on
\* with not_found, with another version it ends with conflict_data.  Any row
\* may come first.
CheckIfVersion(c) ==
    LET q == call[c]
        S == Target(q)
    IN /\ At(c, "sent")
       /\ \/ /\ S = {}
             /\ call' = [call EXCEPT ![c].step = "missing"]
          \/ \E i \in S : /\ q.ver = NoVersion \/ row[i].ver = q.ver
                          /\ call' = [call EXCEPT ![c] =
                                        [q EXCEPT !.step = "found", !.opened = clock, !.left = S,
                                                  !.seen = [j \in Item |-> IF j \in S THEN row[j] ELSE NoRow]]]
          \/ \E i \in S : /\ q.ver # NoVersion /\ row[i].ver # q.ver
                          /\ End(c)
       /\ UNCHANGED <<row, clock, expired, etag, started, faults>>

\* Slip: the statement follows the row to its current version.
CurrentFollowed(c, i) == Present(i)

\* WHERE CURRENT OF has an effect: the row is the one the cursor was opened on.
Current(c, i) == Present(i) /\ row[i].ver = call[c].seen[i].ver

Write(c, i, dated) ==
    /\ row' = [row EXCEPT ![i] = [ver |-> clock + 1, dated |-> dated]]
    /\ clock' = clock + 1
    /\ etag' = [etag EXCEPT ![c][i] = clock + 1]
    /\ End(c)
    /\ UNCHANGED <<started, faults>>

\* Slip: `expires` set to what the call gives, past rows included.
UpdateNoCoalesce(c) ==
    LET q == call[c] IN
    /\ At(c, "found") /\ q.op = "put"
    /\ Current(c, q.item) /\ ~Locked(q.item)
    /\ Write(c, q.item, q.dated)
    /\ expired' = IF q.dated THEN expired \ {q.item} ELSE expired

\* update_if_version, the UPDATE: `expires` stays when the call gives none.
Update(c) ==
    LET q == call[c] IN
    /\ At(c, "found") /\ q.op = "put"
    /\ Current(c, q.item) /\ ~Locked(q.item)
    /\ Write(c, q.item, q.dated \/ row[q.item].dated)
    /\ expired' = IF q.dated THEN expired \ {q.item} ELSE expired

\* No row came back: the client is told that there is none (ensureRecords).
UpdateNothing(c) ==
    LET q == call[c] IN
    /\ At(c, "found") /\ q.op = "put"
    /\ ~Current(c, q.item)
    /\ End(c)
    /\ UNCHANGED <<row, clock, expired, etag, started, faults>>

\* update_if_version, the INSERT, whatever version the call gave.
Insert(c) ==
    LET q == call[c] IN
    /\ At(c, "missing") /\ q.op = "put"
    /\ ~Present(q.item)
    /\ Write(c, q.item, q.dated)
    /\ UNCHANGED expired

\* Another insert was first (unique index); or a deletion found nothing.
NothingDone(c) ==
    LET q == call[c] IN
    /\ At(c, "missing")
    /\ q.op = "put" => Present(q.item) /\ ~Locked(q.item)
    /\ End(c)
    /\ UNCHANGED <<row, clock, expired, etag, started, faults>>

\* Slip: the loop ends with the first row that has changed.
DeleteNextOrStop(c, i) ==
    LET q == call[c] IN
    /\ At(c, "found") /\ q.op # "put" /\ i \in q.left
    /\ call' = [call EXCEPT ![c].left = IF Current(c, i) THEN @ \ {i} ELSE {},
                            ![c].gone = IF Current(c, i) THEN @ \cup {i} ELSE @]
    /\ ~Locked(i)
    /\ UNCHANGED <<row, clock, expired, etag, started, faults>>

\* delete_if_version, one turn of the loop, which waits for a locked row.
DeleteNext(c, i) ==
    LET q == call[c] IN
    /\ At(c, "found") /\ q.op # "put" /\ i \in q.left
    /\ ~Locked(i)
    /\ call' = [call EXCEPT ![c].left = @ \ {i},
                            ![c].gone = IF Current(c, i) THEN @ \cup {i} ELSE @]
    /\ UNCHANGED <<row, clock, expired, etag, started, faults>>

Remove(S) ==
    /\ row' = [i \in Item |-> IF i \in S THEN NoRow ELSE row[i]]
    /\ expired' = expired \ S
    /\ UNCHANGED clock

\* The deletion has been through its rows and commits.
DeleteEnds(c) ==
    /\ At(c, "found") /\ call[c].op # "put" /\ call[c].left = {}
    /\ Remove(call[c].gone)
    /\ End(c)
    /\ UNCHANGED <<etag, started, faults>>

\* The statement times out, and its transaction is rolled back.
Fails(c) ==
    /\ call[c] # Idle /\ faults < MaxFaults
    /\ faults' = faults + 1
    /\ End(c)
    /\ UNCHANGED <<row, clock, expired, etag, started>>

-----------------------------------------------------------------------------
Expire(i) ==
    /\ Present(i) /\ row[i].dated /\ i \notin expired
    /\ expired' = expired \cup {i}
    /\ UNCHANGED <<row, clock, call, etag, started, faults>>

\* purgeExpiredItems
PurgeExpiredItems ==
    /\ expired # {} /\ \A i \in expired : ~Locked(i)
    /\ Remove(expired)
    /\ UNCHANGED <<call, etag, started, faults>>

Next ==
    \/ \E c \in Client, i \in Item :
          Get(c, i) \/ StoragePut(c, i) \/ StorageDelete(c, i) \/ StoragePrune(c, i) \/ DeleteNext(c, i)
    \/ \E c \in Client :
          \/ CheckIfVersion(c) \/ Update(c) \/ UpdateNothing(c) \/ Insert(c) \/ NothingDone(c)
          \/ DeleteEnds(c) \/ Fails(c)
    \/ \E i \in Item : Expire(i)
    \/ PurgeExpiredItems

Spec == Init /\ [][Next]_vars

-----------------------------------------------------------------------------
(* The contract: a row is its version, a call is what was asked.           *)

Store == [i \in Item |-> IF row[i] = NoRow THEN NoRow ELSE row[i].ver]

Asked == [c \in Client |->
    IF call[c] = Idle THEN Idle
    ELSE IF call[c].op = "prune" THEN [op |-> "prune", etag |-> call[c].ver]
    ELSE [op |-> call[c].op, item |-> call[c].item, etag |-> call[c].ver]]

Contract == INSTANCE StorageContract WITH
    store <- Store, latest <- clock, asked <- Asked, Empty <- NoRow, Done <- Idle

\* Puts and deletions are atomic and conditional although the version is
\* checked in one statement and the row changed in another.
ImplementsContract == Contract!Spec

\* A recursive deletion that succeeds leaves nothing of what was stored when
\* it began: what is there after it was written since.
PruneLeavesOnlyNew ==
    [][\A c \in Client : DeleteEnds(c) /\ call[c].op = "prune" =>
          \A i \in Item : row'[i] # NoRow => row'[i].ver > call[c].opened]_vars

\* What the API description says of a put with an etag: it succeeds only if
\* the stored data still is what the etag stands for.
PutMatches ==
    [][\A c \in Client : (Update(c) \/ Insert(c)) /\ call[c].ver # NoVersion =>
          LET i == call[c].item IN row[i] # NoRow /\ row[i].ver = call[c].ver]_vars

=============================================================================
