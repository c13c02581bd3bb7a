-------------------------- MODULE StorageContract --------------------------
(***************************************************************************)
(* What the storage API promises its clients: every item is a register     *)
(* with an etag.  A put or a deletion takes effect at one moment between   *)
(* the request and its answer, and if the client gave an etag, only on the *)
(* state that has it, or, a put, where nothing is stored.  A recursive     *)
(* deletion removes a set of items at one moment.                          *)
(***************************************************************************)
EXTENDS Naturals

CONSTANTS Item, Client, Empty, Done

VARIABLES store,    \* the etag of each item, or Empty
          latest,   \* the last etag given out
          asked     \* what each client is waiting for, or Done

contractVars == <<store, latest, asked>>

AnyEtag == 0

Ask == [op : {"put", "delete"}, item : Item, etag : 0..latest] \cup [op : {"prune"}, etag : 0..latest]

Init ==
    /\ latest \in Nat
    /\ store \in [Item -> {Empty} \cup 1..latest]
    /\ asked = [c \in Client |-> Done]

Request(c) ==
    /\ asked[c] = Done
    /\ \E q \in Ask : asked' = [asked EXCEPT ![c] = q]
    /\ UNCHANGED <<store, latest>>

Answer(c) == asked[c] # Done /\ asked' = [asked EXCEPT ![c] = Done]

Matches(q) == q.etag = AnyEtag \/ store[q.item] = q.etag

Put(c) ==
    /\ Answer(c)
    /\ asked[c].op = "put"
    /\ store[asked[c].item] = Empty \/ Matches(asked[c])
    /\ latest' = latest + 1
    /\ store' = [store EXCEPT ![asked[c].item] = latest + 1]

Clear(S) ==
    /\ store' = [i \in Item |-> IF i \in S THEN Empty ELSE store[i]]
    /\ UNCHANGED latest

Delete(c) ==
    /\ Answer(c)
    /\ asked[c].op = "delete"
    /\ store[asked[c].item] # Empty /\ Matches(asked[c])
    /\ Clear({asked[c].item})

Prune(c) ==
    /\ Answer(c)
    /\ asked[c].op = "prune"
    /\ \E S \in SUBSET Item : Clear(S)

\* Refused, or failed: nothing has changed.
Refuse(c) ==
    /\ Answer(c)
    /\ UNCHANGED <<store, latest>>

\* Items whose time is over disappear.
Purge ==
    /\ \E S \in SUBSET Item : Clear(S)
    /\ UNCHANGED asked

Next ==
    \/ \E c \in Client : Request(c) \/ Put(c) \/ Delete(c) \/ Prune(c) \/ Refuse(c)
    \/ Purge

Spec == Init /\ [][Next]_contractVars

=============================================================================
