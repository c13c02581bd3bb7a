--------------------------- MODULE EntityContract ---------------------------
(***************************************************************************)
(* What the entity API promises of an integration or a connector, with no  *)
(* requests, builds or processes in sight: how one entity may change from  *)
(* one moment to the next as a client that polls it sees it.               *)
(*                                                                         *)
(*   - it appears only by creation, in state "creating";                   *)
(*   - it leaves "creating" once, for "active" or "invalid", never goes    *)
(*     back, and an active entity never becomes invalid;                   *)
(*   - its data changes only together with its becoming (or staying)       *)
(*     active; its tags change only then or alone;                         *)
(*   - every change draws a version that no entity ever had.               *)
(***************************************************************************)
EXTENDS Naturals

CONSTANTS Key, Data, Tag, Absent

VARIABLES entity,   \* entity[k]: what a reader sees of k, or Absent
          latest    \* the last version drawn

contractVars == <<entity, latest>>

Init ==
  /\ latest \in Nat
  /\ entity \in [Key -> {Absent} \cup
                   [ver : 1 .. latest, state : {"active"}, data : Data, tags : SUBSET Tag]]

Exists(k) == entity[k] # Absent

Write(k, state, data, tags) ==
  /\ latest' = latest + 1
  /\ entity' = [entity EXCEPT ![k] = [ver |-> latest + 1, state |-> state,
                                      data |-> data, tags |-> tags]]

Create(k) ==
  /\ ~ Exists(k)
  /\ \E d \in Data, t \in SUBSET Tag : Write(k, "creating", d, t)

\* The progress of an operation is noted; what the entity is stays.
Touch(k) ==
  /\ Exists(k)
  /\ Write(k, entity[k].state, entity[k].data, entity[k].tags)

Activate(k) ==
  /\ Exists(k)
  /\ \E d \in Data, t \in SUBSET Tag : Write(k, "active", d, t)

Invalidate(k) ==
  /\ Exists(k)
  /\ entity[k].state = "creating"
  /\ Write(k, "invalid", entity[k].data, entity[k].tags)

Retag(k) ==
  /\ Exists(k)
  /\ \E t \in SUBSET Tag : Write(k, entity[k].state, entity[k].data, t)

Remove(S) ==
  /\ entity' = [k \in Key |-> IF k \in S THEN Absent ELSE entity[k]]
  /\ UNCHANGED latest

Next ==
  \/ \E k \in Key : Create(k) \/ Touch(k) \/ Activate(k) \/ Invalidate(k) \/ Retag(k)
  \/ \E S \in SUBSET Key : Remove(S)

Spec == Init /\ [][Next]_contractVars

=============================================================================
