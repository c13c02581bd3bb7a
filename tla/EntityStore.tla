---------------------------- MODULE EntityStore ----------------------------
(***************************************************************************)
(* The `entity` table of the RDS database and the SQL functions through    *)
(* which the data access objects of lib/data/db read and write it.         *)
(*                                                                         *)
(* A row is a version and a body.  Versions are drawn by gen_random_uuid() *)
(* in the code; here they are numbers taken from a counter, which keeps    *)
(* what matters about them: a fresh version is different from every        *)
(* earlier one.  What a body holds is left to the module that extends this *)
(* one.  Each SQL statement is atomic.                                     *)
(***************************************************************************)
EXTENDS Naturals

CONSTANTS Key,      \* the primary keys (account, subscription, type, id)
          NoRow     \* what table[k] is when there is no row at k

VARIABLES table,    \* the rows, by key
          clock,    \* the last version handed out
          expired   \* the keys whose row has `expires` in the past

storeVars == <<table, clock, expired>>

NoVersion == 0      \* a caller that passes no version

Row(Body) == [ver : Nat \ {0}, body : Body]

StoreTypeOK(Body) ==
  /\ table \in [Key -> Row(Body) \cup {NoRow}]
  /\ clock \in Nat
  /\ expired \in SUBSET Key

\* The table as earlier requests left it: rows at some of the keys, with
\* bodies b and versions v, no two alike.
StoreInit(b, v, newest) ==
  /\ \A k, l \in DOMAIN b : v[k] = v[l] => k = l
  /\ table = [k \in Key |-> IF k \in DOMAIN b THEN [ver |-> v[k], body |-> b[k]]
                                                ELSE NoRow]
  /\ clock = newest
  /\ expired = {}

(***************************************************************************)
(* The conditions of the SQL functions.                                    *)
(***************************************************************************)
Present(k) == table[k] # NoRow

\* A row that a query with filterExpired sees.
Live(k) == Present(k) /\ k \notin expired

\* check_if_version raises conflict_data otherwise.
VersionMatches(k, v) == v = NoVersion \/ table[k].ver = v

\* Slip: `version = gen_random_uuid()` left out of the SET list.
StampedStale(b) == [ver |-> IF clock = 0 THEN 1 ELSE clock, body |-> b]

\* The row that an insert or an update leaves: the new version is fresh.
Stamped(b) == [ver |-> clock + 1, body |-> b]

(***************************************************************************)
(* The statements.  Each is enabled only when it succeeds; the module that *)
(* uses it gives the caller's reaction to not_found and conflict_data.     *)
(***************************************************************************)

\* INSERT INTO entity: the unique index counts an expired row that has not
\* been purged yet.
InsertRow(k, b) ==
  /\ ~ Present(k)
  /\ table' = [table EXCEPT ![k] = Stamped(b)]
  /\ clock' = clock + 1
  /\ expired' = expired

\* update_if_version, filterExpired and not upsert.
CanUpdate(k, v) == Live(k) /\ VersionMatches(k, v)

UpdateRow(k, v, b) ==
  /\ CanUpdate(k, v)
  /\ table' = [table EXCEPT ![k] = Stamped(b)]
  /\ clock' = clock + 1
  /\ expired' = expired

\* delete_if_version, not filterExpired.
CanDelete(k, v) == Present(k) /\ VersionMatches(k, v)

DeleteRow(k, v) ==
  /\ CanDelete(k, v)
  /\ table' = [table EXCEPT ![k] = NoRow]
  /\ expired' = expired \ {k}
  /\ clock' = clock

(***************************************************************************)
(* Time passes the `expires` of a row; the periodic purge removes every    *)
(* such row.                                                               *)
(***************************************************************************)
Expire(k) ==
  /\ Live(k)
  /\ expired' = expired \cup {k}
  /\ UNCHANGED <<table, clock>>

PurgeExpiredItems ==
  /\ expired # {}
  /\ table' = [k \in Key |-> IF k \in expired THEN NoRow ELSE table[k]]
  /\ expired' = {}
  /\ clock' = clock

=============================================================================
