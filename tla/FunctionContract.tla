-------------------------- MODULE FunctionContract --------------------------
(***************************************************************************)
(* What PUT and DELETE of one function promise, with no build in sight, as *)
(* long as requests follow each other and nothing goes wrong: what others  *)
(* may see of the function while a request changes it.                     *)
(*                                                                         *)
(*   - a request is answered when all they see is what it asked for;       *)
(*   - until then each of them sees the function as it was or as it is to  *)
(*     be; between the schedules there may be none;                        *)
(*   - a task route that stays keeps its queue, and what waits in it.      *)
(*                                                                         *)
(* Once requests overlap or something fails it promises nothing any more.  *)
(***************************************************************************)
CONSTANTS Req, Function, None

VARIABLES reads,    \* what GET answers
          runs,     \* what an execution runs
          fires,    \* the schedules by which the scheduler executes it
          feeds,    \* the queues that take its tasks, each with its route
          open,     \* the request under way, with what it asks for (None: delete it)
          orderly   \* none has overlapped with another or failed

contractVars == <<reads, runs, fires, feeds, open, orderly>>

ImageOf(f) == IF f = None THEN None ELSE [code |-> f.code, conf |-> f.conf]
KeysOf(f)  == IF f = None THEN {} ELSE {f.cron} \ {None}
TasksOf(f) == IF f = None THEN {} ELSE f.tasks

\* The queues q serve the task routes R, one each.
Serve(q, R) == {x[2] : x \in q} = R /\ \A x, y \in q : x[2] = y[2] => x = y

IsAll(f) == reads = f /\ runs = ImageOf(f) /\ fires = KeysOf(f) /\ Serve(feeds, TasksOf(f))

Init ==
  /\ orderly = TRUE /\ open = {}
  /\ \E f \in Function \cup {None} : IsAll(f)

\* A deletion stops the schedule at once.
Ask(r, f) ==
  /\ open = {} /\ open' = {<<r, f>>}
  /\ \/ UNCHANGED fires
     \/ f = None /\ fires' = {}
  /\ UNCHANGED <<reads, runs, feeds>>

Show(f)     == reads' = f /\ UNCHANGED <<runs, fires, feeds, open>>
Run(f)      == runs' = ImageOf(f) /\ UNCHANGED <<reads, fires, feeds, open>>
Schedule(f) == fires' \in {{}, KeysOf(f)} /\ UNCHANGED <<reads, runs, feeds, open>>
Feed(f) ==
  /\ Serve(feeds', TasksOf(f)) /\ {x \in feeds : x[2] \in TasksOf(f)} \subseteq feeds'
  /\ UNCHANGED <<reads, runs, fires, open>>

Answer(f) == IsAll(f) /\ open' = {} /\ UNCHANGED <<reads, runs, fires, feeds>>

Orderly ==
  \/ \E r \in Req, f \in Function \cup {None} : Ask(r, f)
  \/ \E x \in open : Show(x[2]) \/ Run(x[2]) \/ Schedule(x[2]) \/ Feed(x[2]) \/ Answer(x[2])

Next ==
  \/ orderly /\ orderly' = TRUE /\ Orderly
  \/ orderly' = FALSE

Spec == Init /\ [][Next]_contractVars

=============================================================================
