------------------------- MODULE CronScheduleProofs -------------------------
(***************************************************************************)
(* For any schedules, windows, builds and failures: between a build and    *)
(* the scheduler no occurrence is left out; none is sent twice unless both *)
(* met in the 8th minute; the objects follow the specification.            *)
(*                                                                         *)
(* Both first properties follow the scheduler through its window.  What it *)
(* has to do with a schedule is over (Swept) when the 8th minute has come, *)
(* no run is due, and none that is under way has the schedule before it.   *)
(* Until then the messages reach to the end of the current window and,     *)
(* but for a build in its last minutes, no further (Once); from then on    *)
(* they reach to the end of the next one (Coverage).                       *)
(***************************************************************************)
EXTENDS CronSchedule, TLAPS

Orderly == ~overlapped /\ ~failed

\* What a request is about at each place of its program.
Wanted ==
    \A b \in Builds :
        LET q == build[b]
        IN /\ q.pc \in {"register", "enqueue"} => q.want \in Schedules
           /\ q.pc = "delete" => IF q.plan = "update" THEN q.want \in Schedules ELSE q.want = Off
           /\ q.pc = "remove" => q.want = Off

\* A request in progress, as TypeOK has it.
Rec == [pc : {"none", "delete", "register", "enqueue", "save", "remove"},
        want : Schedules \cup {Off},
        plan : {"none", "cancel", "set", "update"}]

\* What an orderly request has made of the objects at each place.
Made(q) ==
    CASE q.pc = "delete"   -> TRUE
      [] q.pc = "register" -> keys = {}
      [] q.pc = "remove"   -> keys = {}
      [] OTHER             -> keys = {q.want} \ {Off}

Matches ==
    Orderly => /\ AtRest => keys = {spec} \ {Off}
               /\ \A b \in Builds : build[b] # NoBuild => /\ Made(build[b])
                                                          /\ \A c \in Builds : build[c] # NoBuild => b = c

\* The scheduler runs from the 8th minute to the end of its window.
Timely ==
    ~lapsed => /\ due \/ run.on => clock % Window >= Eighth
               /\ ~(due /\ run.on)
               /\ run.on => run.from = NextFull(clock)

Swept(s) == clock % Window >= Eighth /\ ~due /\ (run.on => s \notin run.left)

Enqueues(b, s) == build[b].pc = "enqueue" /\ build[b].want = s

\* The build of schedule s has sent its imminent occurrences.
Settled(s) == s \in keys /\ \A b \in Builds : ~Enqueues(b, s)

Sent(s, t) == waiting[s][t] + ran[s][t]

\* An occurrence has a message, or has run, or the executor has dropped it.
Dealt(s, t) == Sent(s, t) > 0 \/ t \in skipped[s]

Covered(s, a, z) == \A t \in Between(s, a, z) : InLimit(s, t) => Dealt(s, t)

Coverage ==
    Orderly /\ ~lapsed /\ ~dropped => \A s \in Schedules : Settled(s) =>
        /\ Covered(s, since[s], NextFull(clock))
        /\ Swept(s) => Covered(s, NextFull(clock), NextFull(clock) + Window)

\* No occurrence of s after instant a has a message.
Nothing(s, a) == \A t \in Instants : t > a => Sent(s, t) = 0

\* The build of s sent its messages before the 8th minute of this window.
Early(s) == since[s] + Window < NextFull(clock) + Eighth

Lone(s) ==
    /\ times[s] = 0 => s \notin keys /\ \A b \in Builds : ~Enqueues(b, s)
    /\ \A b, c \in Builds : Enqueues(b, s) /\ Enqueues(c, s) => b = c
    /\ times[s] = 0 \/ (\E b \in Builds : Enqueues(b, s)) => \A t \in Instants : Sent(s, t) = 0
    /\ \A t \in Instants : Sent(s, t) <= 1
    /\ Nothing(s, NextFull(clock) + Window)
    /\ ~Swept(s) /\ Early(s) => Nothing(s, NextFull(clock))

Once == ~lapsed /\ ~again => \A s \in Schedules \ straddled : times[s] <= 1 => Lone(s)

IInv == TypeOK /\ Wanted /\ Matches /\ Timely /\ Coverage /\ Once

-----------------------------------------------------------------------------
LEMMA Numbers ==
    /\ Window \in Nat /\ Window > 0 /\ Eighth \in Nat /\ Eighth >= 1 /\ Eighth < Window
    /\ MaxDelay \in Nat /\ End \in Nat /\ MaxBuilds \in Nat /\ MaxCopies \in Nat /\ MaxFaults \in Nat
BY CronAssumption

\* Division by the length of a window.
LEMMA Quotient ==
    ASSUME NEW c \in Nat
    PROVE  /\ c \div Window \in Nat /\ c % Window \in 0..(Window - 1)
           /\ c = (c \div Window) * Window + (c % Window)
BY Numbers

LEMMA QuotientIs ==
    ASSUME NEW c \in Nat, NEW k \in Nat, k * Window <= c, c < (k + 1) * Window
    PROVE  c \div Window = k
BY Numbers, Quotient

LEMMA NextFullIs ==
    ASSUME NEW c \in Nat
    PROVE  /\ NextFull(c) \in Nat /\ c < NextFull(c) /\ NextFull(c) <= c + Window
           /\ c % Window = c + Window - NextFull(c)
<1>1. NextFull(c) = (c \div Window) * Window + Window
    BY Quotient, Numbers DEF NextFull
<1>2. QED
    BY <1>1, Quotient, Numbers

LEMMA NextFullTick ==
    ASSUME NEW c \in Nat
    PROVE  IF (c + 1) % Window = 0 THEN NextFull(c) = c + 1 /\ NextFull(c + 1) = NextFull(c) + Window
                                   ELSE NextFull(c + 1) = NextFull(c) /\ (c + 1) % Window = (c % Window) + 1
<1>. DEFINE d == c \div Window
<1>1. d \in Nat /\ c = d * Window + (c % Window) /\ c % Window \in 0..(Window - 1)
    BY Quotient
<1>2. NextFull(c) = d * Window + Window
    BY <1>1, Numbers DEF NextFull
<1>3. CASE c % Window = Window - 1
    <2>1. c + 1 = (d + 1) * Window /\ c + 1 < (d + 1 + 1) * Window
        BY <1>1, <1>3, Numbers
    <2>2. (c + 1) \div Window = d + 1
        BY <2>1, <1>1, Numbers, QuotientIs
    <2>3. (c + 1) % Window = 0
        BY <2>1, <2>2, <1>1, Quotient, Numbers
    <2>4. QED
        BY <2>1, <2>2, <2>3, <1>1, <1>2, Numbers DEF NextFull
<1>4. CASE c % Window # Window - 1
    <2>1. d * Window <= c + 1 /\ c + 1 < (d + 1) * Window
        BY <1>1, <1>4, Numbers
    <2>2. (c + 1) \div Window = d
        BY <2>1, <1>1, Numbers, QuotientIs
    <2>3. (c + 1) % Window = (c % Window) + 1
        BY <2>2, <1>1, Quotient, Numbers
    <2>4. QED
        BY <2>2, <2>3, <1>1, <1>2, Numbers DEF NextFull
<1>5. QED
    BY <1>3, <1>4

\* The window of an instant in the one after the current.
LEMMA WindowOf ==
    ASSUME NEW c \in Nat, NEW t \in Nat, NextFull(c) < t, t <= NextFull(c) + Window
    PROVE  ((t - 1) \div Window) * Window = NextFull(c) /\ NextFull(t - 1) = NextFull(c) + Window
<1>. DEFINE k == c \div Window + 1
<1>1. k \in Nat /\ NextFull(c) = k * Window
    BY Quotient DEF NextFull
<1>2. t - 1 \in Nat /\ k * Window <= t - 1 /\ t - 1 < (k + 1) * Window
    BY <1>1, Numbers
<1>3. (t - 1) \div Window = k
    BY <1>1, <1>2, QuotientIs
<1>4. QED
    BY <1>1, <1>3, Numbers DEF NextFull

-----------------------------------------------------------------------------
LEMMA InitIInv ==
    ASSUME Init PROVE IInv
<1>. USE Numbers
<1>1. NextFull(0) \in Nat /\ NextFull(0) >= Window
    BY NextFullIs
<1>2. clock = 0 /\ clock \in Instants
    BY DEF Init, Instants
<1>3. TypeOK
  <2>1. NoneSent \in [Schedules -> [Instants -> Copies]]
      BY DEF NoneSent, Copies
  <2>2. {waiting, ran} \subseteq [Schedules -> [Instants -> Copies]]
      BY <2>1 DEF Init
  <2>3. {overlapped, failed, lapsed, dropped, again} \subseteq BOOLEAN
      BY DEF Init
  <2>4. since \in [Schedules -> 0..clock] /\ times \in [Schedules -> Nat]
      BY <1>2 DEF Init
  <2>5. NoBuild \in Rec /\ build \in [Builds -> Rec]
      BY DEF Init, NoBuild, Rec
  <2>6. run \in [on : BOOLEAN, from : 0..(End + Window), left : SUBSET Schedules]
      BY DEF Init, NoRun
  <2>7. /\ keys \subseteq Schedules /\ spec \in Schedules \cup {Off} /\ straddled \subseteq Schedules
        /\ tags \in BOOLEAN /\ skipped \in [Schedules -> SUBSET Instants]
      BY DEF Init
  <2>8. due \in BOOLEAN
      BY DEF Init
  <2>9. started \in 0..MaxBuilds /\ faults \in 0..MaxFaults
      BY Numbers DEF Init
  <2>. QED
      BY <1>2, <2>2, <2>3, <2>4, <2>5, <2>6, <2>7, <2>8, <2>9 DEF TypeOK, Rec
<1>4. Wanted /\ Matches
    BY DEF Init, Wanted, Matches, NoBuild
<1>5. Timely /\ Coverage
    BY DEF Init, Timely, NoRun, Coverage, Settled
<1>6. Once
    BY DEF Init, Once, Lone, Sent, NoneSent, Enqueues, NoBuild, Nothing
<1>. QED
    BY <1>3, <1>4, <1>5, <1>6 DEF IInv

\* What TypeOK says of the numbers.
LEMMA Types ==
    ASSUME TypeOK
    PROVE  /\ clock \in Nat /\ clock <= End /\ NextFull(clock) \in Nat
           /\ clock < NextFull(clock) /\ NextFull(clock) <= clock + Window
           /\ clock % Window = clock + Window - NextFull(clock)
           /\ \A s \in Schedules, t \in Instants :
                 waiting[s][t] \in Nat /\ ran[s][t] \in Nat /\ Sent(s, t) \in Nat
           /\ \A s \in Schedules : since[s] \in Nat /\ since[s] <= clock /\ times[s] \in Nat
           /\ \A s \in Schedules : Occurrences[s] \subseteq Instants
<1>1. clock \in Nat /\ clock <= End
    BY Numbers DEF TypeOK, Instants
<1>2. \A s \in Schedules, t \in Instants : waiting[s][t] \in Nat /\ ran[s][t] \in Nat
    BY Numbers DEF TypeOK, Copies
<1>3. \A s \in Schedules : since[s] \in 0..clock /\ times[s] \in Nat
    BY DEF TypeOK
<1>4. \A s \in Schedules : Occurrences[s] \subseteq Instants
    BY CronAssumption DEF Instants
<1>5. /\ NextFull(clock) \in Nat /\ clock < NextFull(clock) /\ NextFull(clock) <= clock + Window
      /\ clock % Window = clock + Window - NextFull(clock)
    BY <1>1, NextFullIs
<1>6. \A s \in Schedules, t \in Instants : Sent(s, t) \in Nat
    BY <1>2 DEF Sent
<1>7. \A s \in Schedules : since[s] \in Nat /\ since[s] <= clock
    BY <1>1, <1>3
<1>. QED
    BY <1>1, <1>2, <1>3, <1>4, <1>5, <1>6, <1>7

LEMMA SendIs ==
    ASSUME TypeOK, NEW s \in Schedules, NEW S \in SUBSET Instants, Send(s, S)
    PROVE  /\ waiting' \in [Schedules -> [Instants -> Copies]]
           /\ \A r \in Schedules, t \in Instants :
                 waiting'[r][t] = IF r = s /\ t \in S THEN waiting[r][t] + 1 ELSE waiting[r][t]
<1>. DEFINE f == [t \in Instants |-> IF t \in S THEN waiting[s][t] + 1 ELSE waiting[s][t]]
<1>1. waiting \in [Schedules -> [Instants -> Copies]]
    BY DEF TypeOK
<1>2. waiting' = [waiting EXCEPT ![s] = f]
    BY <1>1 DEF Send
<1>3. f \in [Instants -> Copies]
    BY <1>1, Numbers DEF Send, Copies
<1>. HIDE DEF f
<1>4. waiting' \in [Schedules -> [Instants -> Copies]]
    BY <1>1, <1>2, <1>3
<1>5. \A r \in Schedules : waiting'[r] = IF r = s THEN f ELSE waiting[r]
    BY <1>1, <1>2
<1>6. \A t \in Instants : f[t] = IF t \in S THEN waiting[s][t] + 1 ELSE waiting[s][t]
    BY DEF f
<1>. QED
    BY <1>4, <1>5, <1>6

-----------------------------------------------------------------------------
(* Steps of a build that touch neither messages nor clock nor scheduler.   *)

Rest == <<clock, due, run, waiting, ran, since, lapsed, dropped, again, straddled, skipped>>

\* Such a step keeps Coverage and Once when no build begins or ends to send
\* and no schedule that was not there comes to be.
LEMMA QuietStep ==
    ASSUME IInv, UNCHANGED <<Rest, times>>, keys' \subseteq keys,
           Orderly' => Orderly,
           \A b \in Builds, s \in Schedules : Enqueues(b, s)' <=> Enqueues(b, s)
    PROVE  Timely' /\ Coverage' /\ Once'
<1>1. \A s \in Schedules : Swept(s)' <=> Swept(s)
    BY DEF Swept, Rest
<1>2. \A s \in Schedules : /\ Settled(s)' => Settled(s)
                           /\ Early(s)' <=> Early(s)
                           /\ \A t \in Instants : Sent(s, t)' = Sent(s, t)
                           /\ \A a, z : Covered(s, a, z)' <=> Covered(s, a, z)
                           /\ \A a : Nothing(s, a)' <=> Nothing(s, a)
    BY DEF Settled, Early, Sent, Dealt, Covered, Nothing, Rest
<1>3. Timely'
    BY DEF IInv, Timely, Rest
<1>4. Coverage'
    BY <1>1, <1>2 DEF IInv, Coverage, Rest
<1>5. Once'
    BY <1>1, <1>2 DEF IInv, Once, Lone, Rest
<1>. QED
    BY <1>3, <1>4, <1>5

LEMMA BeginStep ==
    ASSUME IInv, NEW b \in Builds, NEW q \in Rec, Begin(b, q),
           q.pc \in {"delete", "register", "save"},
           q.pc = "register" => q.want \in Schedules,
           q.pc = "delete" => IF q.plan = "update" THEN q.want \in Schedules ELSE q.want = Off,
           keys = {spec} \ {Off} => Made(q)
    PROVE  IInv'
<1>0. build[b] = NoBuild /\ build' = [build EXCEPT ![b] = q] /\ build \in [Builds -> Rec]
    BY DEF IInv, TypeOK, Begin, Rec
<1>1. build' \in [Builds -> Rec] /\ build'[b] = q /\ \A c \in Builds \ {b} : build'[c] = build[c]
    BY <1>0
<1>2. TypeOK'
    BY <1>1, Numbers DEF IInv, TypeOK, Begin, Rec
<1>3. Wanted'
    BY <1>1 DEF IInv, Wanted
<1>4. Matches'
  <2>. SUFFICES ASSUME Orderly' PROVE Matches'
      BY DEF Matches
  <2>1. Orderly /\ AtRest
      BY DEF Orderly, Begin, AtRest
  <2>2. Made(q)'
      BY <2>1 DEF IInv, Matches, Made, Begin
  <2>3. build'[b] # NoBuild
      BY <1>1 DEF NoBuild
  <2>. QED
      BY <1>1, <2>1, <2>2, <2>3 DEF Matches, AtRest
<1>5. \A c \in Builds, s \in Schedules : Enqueues(c, s)' <=> Enqueues(c, s)
    BY <1>0, <1>1 DEF Enqueues, NoBuild
<1>6. Timely' /\ Coverage' /\ Once'
    BY <1>5, QuietStep DEF Begin, Orderly, Rest
<1>. QED
    BY <1>2, <1>3, <1>4, <1>6 DEF IInv

LEMMA PutStep ==
    ASSUME IInv, NEW b \in Builds, Put(b) PROVE IInv'
<1>1. PICK want \in Schedules \cup {Off} :
        Begin(b, [pc |-> FirstOf(Plan(want)), want |-> want, plan |-> Plan(want)])
    BY DEF Put
<1>2. spec \in Schedules \cup {Off} /\ Off \notin Schedules
    BY CronAssumption DEF IInv, TypeOK
<1>. DEFINE q == [pc |-> FirstOf(Plan(want)), want |-> want, plan |-> Plan(want)]
<1>3. \/ Plan(want) = "none" /\ q.pc = "save" /\ want = spec
      \/ Plan(want) = "cancel" /\ q.pc = "delete" /\ want = Off
      \/ Plan(want) = "set" /\ q.pc = "register" /\ want \in Schedules /\ spec = Off
      \/ Plan(want) = "update" /\ q.pc = "delete" /\ want \in Schedules
    BY <1>2 DEF Plan, FirstOf
<1>4. q \in Rec /\ q.want = want /\ q.plan = Plan(want)
    BY <1>3 DEF Rec
<1>5. keys = {spec} \ {Off} => Made(q)
    BY <1>3, <1>4 DEF Made
<1>. HIDE DEF q
<1>. QED
    BY <1>1, <1>3, <1>4, <1>5, BeginStep DEF q

LEMMA RemoveStep ==
    ASSUME IInv, NEW b \in Builds, Remove(b) PROVE IInv'
<1>. DEFINE q == [pc |-> "delete", want |-> Off, plan |-> "none"]
<1>1. q \in Rec /\ Made(q)
    BY DEF Rec, Made
<1>. QED
    BY <1>1, BeginStep DEF Remove

LEMMA SaveStep ==
    ASSUME IInv, NEW b \in Builds, Save(b) PROVE IInv'
<1>0. build \in [Builds -> Rec] /\ build[b].pc \in {"save", "remove"}
    BY DEF IInv, TypeOK, Save, Rec
<1>1. build'[b] = NoBuild /\ \A c \in Builds \ {b} : build'[c] = build[c]
    BY <1>0 DEF Save
<1>2. NoBuild \in Rec
    BY DEF NoBuild, Rec
<1>3. TypeOK'
  <2>1. spec' \in Schedules \cup {Off} /\ build' \in [Builds -> Rec]
      BY <1>0, <1>2 DEF Save, Rec
  <2>. QED
      BY <2>1 DEF IInv, TypeOK, Save, Rec, ghosts
<1>4. Wanted'
    BY <1>1 DEF IInv, Wanted, NoBuild
<1>5. Matches'
  <2>. SUFFICES ASSUME Orderly' PROVE Matches'
      BY DEF Matches
  <2>1. Orderly /\ build[b] # NoBuild
      BY <1>0 DEF Orderly, Save, ghosts, NoBuild
  <2>2. \A c \in Builds \ {b} : build[c] = NoBuild
      BY <2>1 DEF IInv, Matches
  <2>3. Made(build[b]) /\ (build[b].pc = "remove" => build[b].want = Off)
      BY <2>1 DEF IInv, Matches, Wanted
  <2>4. keys' = {spec'} \ {Off}
      BY <1>0, <2>3 DEF Made, Save
  <2>. QED
      BY <1>1, <2>2, <2>4 DEF Matches
<1>6. \A c \in Builds, s \in Schedules : Enqueues(c, s)' <=> Enqueues(c, s)
    BY <1>0, <1>1 DEF Enqueues, NoBuild
<1>7. Timely' /\ Coverage' /\ Once'
    BY <1>6, QuietStep DEF Save, Orderly, Rest, ghosts
<1>. QED
    BY <1>3, <1>4, <1>5, <1>7 DEF IInv

LEMMA DeleteKeysStep ==
    ASSUME IInv, NEW b \in Builds, DeleteKeys(b) PROVE IInv'
<1>. DEFINE next == CASE build[b].plan = "update" -> "register"
                      [] build[b].plan = "cancel" -> "save"
                      [] OTHER -> "remove"
<1>0. /\ build \in [Builds -> Rec] /\ build[b].pc = "delete" /\ keys' = {}
      /\ build' = [build EXCEPT ![b].pc = next] /\ next \in {"register", "save", "remove"}
    BY DEF IInv, TypeOK, DeleteKeys, Rec, Goto
<1>1. /\ build'[b] = [build[b] EXCEPT !.pc = next]
      /\ \A c \in Builds \ {b} : build'[c] = build[c]
    BY <1>0
<1>2. /\ build'[b].pc = next /\ build'[b].want = build[b].want /\ build'[b].plan = build[b].plan
      /\ build'[b] \in Rec
    BY <1>0, <1>1 DEF Rec
<1>3. IF next = "register" THEN build[b].want \in Schedules ELSE build[b].want = Off
    BY <1>0 DEF IInv, Wanted
<1>. HIDE DEF next
<1>4. TypeOK'
  <2>1. build' \in [Builds -> Rec]
      BY <1>0, <1>2
  <2>. QED
      BY <1>0, <2>1 DEF IInv, TypeOK, DeleteKeys, Rec, ghosts
<1>5. Wanted'
    BY <1>0, <1>1, <1>2, <1>3 DEF IInv, Wanted
<1>6. Matches'
  <2>. SUFFICES ASSUME Orderly' PROVE Matches'
      BY DEF Matches
  <2>1. Orderly /\ build[b] # NoBuild
      BY <1>0 DEF Orderly, DeleteKeys, ghosts, NoBuild
  <2>2. \A c \in Builds \ {b} : build[c] = NoBuild
      BY <2>1 DEF IInv, Matches
  <2>3. Made(build[b])'
      BY <1>0, <1>2, <1>3 DEF Made
  <2>4. build'[b] # NoBuild
      BY <1>0, <1>2 DEF NoBuild
  <2>. QED
      BY <1>1, <2>2, <2>3, <2>4 DEF Matches, AtRest
<1>7. \A c \in Builds, s \in Schedules : Enqueues(c, s)' <=> Enqueues(c, s)
    BY <1>0, <1>1, <1>2 DEF Enqueues
<1>8. Timely' /\ Coverage' /\ Once'
    BY <1>0, <1>7, QuietStep DEF DeleteKeys, Orderly, Rest, ghosts
<1>. QED
    BY <1>4, <1>5, <1>6, <1>8 DEF IInv

-----------------------------------------------------------------------------
(* Steps of a build that register a schedule, or send messages.            *)

\* The parts of IInv that depend on a schedule, where nothing about it changes.
LEMMA SameSchedule ==
    ASSUME NEW s \in Schedules,
           UNCHANGED <<clock, due, run, times[s], since[s], skipped[s]>>,
           s \in keys' <=> s \in keys,
           \A b \in Builds : Enqueues(b, s)' <=> Enqueues(b, s),
           \A t \in Instants : Sent(s, t)' = Sent(s, t)
    PROVE  /\ Swept(s)' <=> Swept(s)
           /\ Settled(s)' <=> Settled(s)
           /\ Occurrences[s] \subseteq Instants =>
                 \A a, z : Covered(s, a, z)' <=> Covered(s, a, z)
           /\ Lone(s)' <=> Lone(s)
<1>1. (Swept(s)' <=> Swept(s)) /\ (Settled(s)' <=> Settled(s)) /\ (Early(s)' <=> Early(s))
    BY DEF Swept, Settled, Early
<1>2. \A a : Nothing(s, a)' <=> Nothing(s, a)
    BY DEF Nothing
<1>3. Occurrences[s] \subseteq Instants => \A a, z : Covered(s, a, z)' <=> Covered(s, a, z)
    BY DEF Dealt, Covered, Between
<1>4. Lone(s)' <=> Lone(s)
    BY <1>1, <1>2 DEF Lone
<1>. QED
    BY <1>1, <1>3, <1>4

LEMMA RegisterStep ==
    ASSUME IInv, NEW b \in Builds, Register(b) PROVE IInv'
<1>. DEFINE w == build[b].want
<1>0. /\ build \in [Builds -> Rec] /\ build[b].pc = "register" /\ w \in Schedules
      /\ build' = [build EXCEPT ![b].pc = "enqueue"] /\ keys' = keys \cup {w}
      /\ times \in [Schedules -> Nat] /\ times' = [times EXCEPT ![w] = times[w] + 1]
    BY DEF IInv, TypeOK, Wanted, Register, Rec, Goto
<1>1. /\ build'[b].pc = "enqueue" /\ build'[b].want = w /\ build'[b].plan = build[b].plan
      /\ build'[b] \in Rec
      /\ \A c \in Builds \ {b} : build'[c] = build[c]
    BY <1>0 DEF Rec
<1>. HIDE DEF w
<1>2. TypeOK'
  <2>1. build' \in [Builds -> Rec] /\ times' \in [Schedules -> Nat]
      BY <1>0, <1>1
  <2>. QED
      BY <1>0, <2>1 DEF IInv, TypeOK, Register, Rec
<1>3. Wanted'
    BY <1>0, <1>1 DEF IInv, Wanted
<1>4. Matches'
  <2>. SUFFICES ASSUME Orderly' PROVE Matches'
      BY DEF Matches
  <2>1. Orderly /\ build[b] # NoBuild
      BY <1>0 DEF Orderly, Register, NoBuild
  <2>2. Made(build[b]) /\ \A c \in Builds \ {b} : build[c] = NoBuild
      BY <2>1 DEF IInv, Matches
  <2>3. Made(build[b])' /\ build'[b] # NoBuild
      BY <1>0, <1>1, <2>2, CronAssumption DEF Made, NoBuild
  <2>. QED
      BY <1>1, <2>2, <2>3 DEF Matches, AtRest
<1>5. \A c \in Builds, s \in Schedules \ {w} : Enqueues(c, s)' <=> Enqueues(c, s)
    BY <1>0, <1>1 DEF Enqueues
<1>6. \A s \in Schedules, t \in Instants : Sent(s, t)' = Sent(s, t)
    BY DEF Sent, Register
<1>7. \A s \in Schedules \ {w} : /\ Swept(s)' <=> Swept(s)
                                 /\ Settled(s)' <=> Settled(s)
                                 /\ \A a, z : Covered(s, a, z)' <=> Covered(s, a, z)
                                 /\ Lone(s)' <=> Lone(s)
  <2>. TAKE s \in Schedules \ {w}
  <2>1. Occurrences[s] \subseteq Instants
      BY Types DEF IInv
  <2>. QED
      BY <1>0, <1>5, <1>6, <2>1, SameSchedule DEF Register
<1>8. \A s \in Schedules : Settled(s)' => s # w
    BY <1>1 DEF Settled, Enqueues
<1>9. Coverage'
    BY <1>7, <1>8 DEF IInv, Coverage, Orderly, Register
<1>10. Once'
  <2>. SUFFICES ASSUME ~lapsed', ~again', NEW s \in Schedules, s \notin straddled', times'[s] <= 1
                PROVE  Lone(s)'
      BY DEF Once
  <2>1. CASE s # w
      BY <1>0, <1>7, <2>1 DEF IInv, Once, Register
  <2>2. CASE s = w
    <3>1. times[s] = 0
        BY <1>0, <2>2
    <3>2. Lone(s)
        BY <3>1 DEF IInv, Once, Register
    <3>3. (\A c \in Builds : ~Enqueues(c, s)) /\ \A t \in Instants : Sent(s, t) = 0
        BY <3>1, <3>2 DEF Lone
    <3>4. \A c \in Builds : Enqueues(c, s)' => c = b
        BY <1>1, <3>3 DEF Enqueues
    <3>5. times'[s] # 0
        BY <1>0, <2>2, <3>1
    <3>. QED
        BY <1>6, <3>3, <3>4, <3>5 DEF Lone, Nothing
  <2>. QED
      BY <2>1, <2>2
<1>11. Timely'
    BY DEF IInv, Timely, Register
<1>. QED
    BY <1>2, <1>3, <1>4, <1>9, <1>10, <1>11 DEF IInv

LEMMA ImminentIs ==
    ASSUME TypeOK, NEW s \in Schedules
    PROVE  /\ Imminent(s, clock) \subseteq Instants
           /\ \A t \in Imminent(s, clock) : /\ t <= NextFull(clock) + Window
                                            /\ clock % Window < Eighth => t <= NextFull(clock)
           /\ Between(s, clock, NextFull(clock)) \subseteq Imminent(s, clock)
           /\ clock % Window >= Eighth =>
                 Between(s, NextFull(clock), NextFull(clock) + Window) \subseteq Imminent(s, clock)
<1>1. Occurrences[s] \subseteq Instants /\ \A t \in Instants : t \in Nat
    BY Types, Numbers DEF Instants
<1>2. /\ clock \in Nat /\ NextFull(clock) \in Nat /\ clock < NextFull(clock)
      /\ clock % Window = clock + Window - NextFull(clock)
    BY Types
<1>3. CASE clock % Window >= Eighth
  <2>1. Imminent(s, clock) = Between(s, clock, NextFull(clock) + Window)
      BY <1>3 DEF Imminent
  <2>. QED
      BY <1>1, <1>2, <1>3, <2>1, Numbers DEF Between
<1>4. CASE clock % Window < Eighth
  <2>1. Imminent(s, clock) = Between(s, clock, NextFull(clock))
      BY <1>2, <1>4, Numbers DEF Imminent
  <2>. QED
      BY <1>1, <1>2, <1>4, <2>1, Numbers DEF Between
<1>. QED
    BY <1>2, <1>3, <1>4, Numbers

\* A build sends some of the imminent occurrences and does so no more.
LEMMA SendingStep ==
    ASSUME IInv, NEW b \in Builds, build[b].pc = "enqueue",
           NEW w \in Schedules, build[b].want = w,
           NEW S \in SUBSET Imminent(w, clock), Send(w, S),
           since' = [since EXCEPT ![w] = clock],
           build'[b].pc # "enqueue", \A c \in Builds \ {b} : build'[c] = build[c],
           UNCHANGED <<clock, keys, due, run, ran, lapsed, again, straddled, skipped, times>>
    PROVE  /\ waiting' \in [Schedules -> [Instants -> Copies]]
           /\ since' \in [Schedules -> 0..clock']
           /\ \A s \in Schedules, t \in Instants :
                 Sent(s, t)' = IF s = w /\ t \in S THEN Sent(s, t) + 1 ELSE Sent(s, t)
           /\ \A s \in Schedules \ {w} : /\ Swept(s)' <=> Swept(s)
                                         /\ Settled(s)' <=> Settled(s)
                                         /\ since'[s] = since[s]
                                         /\ \A a, z : Covered(s, a, z)' <=> Covered(s, a, z)
           /\ Timely' /\ Once'
<1>0. TypeOK /\ S \subseteq Instants
    BY ImminentIs DEF IInv
<1>1. /\ waiting' \in [Schedules -> [Instants -> Copies]]
      /\ \A s \in Schedules, t \in Instants :
            waiting'[s][t] = IF s = w /\ t \in S THEN waiting[s][t] + 1 ELSE waiting[s][t]
    BY <1>0, SendIs
<1>2. \A s \in Schedules, t \in Instants :
          Sent(s, t)' = IF s = w /\ t \in S THEN Sent(s, t) + 1 ELSE Sent(s, t)
  <2>. TAKE s \in Schedules, t \in Instants
  <2>1. waiting[s][t] \in Nat /\ ran[s][t] \in Nat
      BY <1>0, Types
  <2>2. ran'[s][t] = ran[s][t]
      OBVIOUS
  <2>. QED
      BY <1>1, <2>1, <2>2 DEF Sent
<1>3. since \in [Schedules -> 0..clock] /\ clock \in 0..clock
    BY <1>0, Types DEF TypeOK
<1>4. since' \in [Schedules -> 0..clock] /\ since'[w] = clock /\ \A s \in Schedules \ {w} : since'[s] = since[s]
    BY <1>3
<1>5. \A c \in Builds, s \in Schedules \ {w} : Enqueues(c, s)' <=> Enqueues(c, s)
    BY DEF Enqueues
<1>6. \A s \in Schedules \ {w} : /\ Swept(s)' <=> Swept(s)
                                 /\ Settled(s)' <=> Settled(s)
                                 /\ \A a, z : Covered(s, a, z)' <=> Covered(s, a, z)
                                 /\ Lone(s)' <=> Lone(s)
  <2>. TAKE s \in Schedules \ {w}
  <2>1. Occurrences[s] \subseteq Instants
      BY <1>0, Types
  <2>2. \A t \in Instants : Sent(s, t)' = Sent(s, t)
      BY <1>2
  <2>. QED
      BY <1>4, <1>5, <2>1, <2>2, SameSchedule
<1>7. Once'
  <2>. SUFFICES ASSUME ~lapsed', ~again', NEW s \in Schedules, s \notin straddled', times'[s] <= 1
                PROVE  Lone(s)'
      BY DEF Once
  <2>1. Lone(s)
      BY DEF IInv, Once
  <2>2. CASE s # w
      BY <1>6, <2>1, <2>2
  <2>3. CASE s = w
    <3>1. Enqueues(b, s)
        BY <2>3 DEF Enqueues
    <3>2. times'[s] # 0 /\ \A t \in Instants : Sent(s, t) = 0
        BY <2>1, <3>1 DEF Lone
    <3>3. \A c \in Builds : ~Enqueues(c, s)'
        BY <2>1, <3>1 DEF Lone, Enqueues
    <3>4. \A t \in Instants : Sent(s, t)' = IF t \in S THEN 1 ELSE 0
        BY <1>2, <2>3, <3>2
    <3>5. Nothing(s, NextFull(clock) + Window)'
      <4>1. \A t \in Instants : t > NextFull(clock) + Window => t \notin S
          BY <1>0, <2>3, ImminentIs, Types, Numbers DEF Instants
      <4>. QED
          BY <3>4, <4>1 DEF Nothing
    <3>6. Early(s)' => Nothing(s, NextFull(clock))'
      <4>. SUFFICES ASSUME Early(s)' PROVE Nothing(s, NextFull(clock))'
          OBVIOUS
      <4>1. clock + Window < NextFull(clock) + Eighth
          BY <1>4, <2>3 DEF Early
      <4>2. clock % Window < Eighth
          BY <1>0, <4>1, Types, Numbers
      <4>3. \A t \in Instants : t > NextFull(clock) => t \notin S
          BY <1>0, <2>3, <4>2, ImminentIs, Types, Numbers DEF Instants
      <4>. QED
          BY <3>4, <4>3 DEF Nothing
    <3>7. \A t \in Instants : Sent(s, t)' <= 1
        BY <3>4
    <3>. QED
        BY <3>2, <3>3, <3>5, <3>6, <3>7 DEF Lone
  <2>. QED
      BY <2>2, <2>3
<1>8. Timely'
    BY DEF IInv, Timely
<1>. QED
    BY <1>1, <1>2, <1>4, <1>6, <1>7, <1>8

LEMMA EnqueueStep ==
    ASSUME IInv, NEW b \in Builds, Enqueue(b) PROVE IInv'
<1>. DEFINE w == build[b].want
<1>0. /\ build \in [Builds -> Rec] /\ build[b].pc = "enqueue" /\ w \in Schedules
      /\ build' = [build EXCEPT ![b].pc = "save"]
    BY DEF IInv, TypeOK, Wanted, Enqueue, Rec, Goto
<1>1. /\ build'[b].pc = "save" /\ build'[b].want = w /\ build'[b].plan = build[b].plan
      /\ build'[b] \in Rec
      /\ \A c \in Builds \ {b} : build'[c] = build[c]
    BY <1>0 DEF Rec
<1>2. Send(w, Imminent(w, clock)) /\ since' = [since EXCEPT ![w] = clock]
    BY DEF Enqueue
<1>. HIDE DEF w
<1>w. w = build[b].want
    BY DEF w
<1>3. /\ waiting' \in [Schedules -> [Instants -> Copies]]
      /\ since' \in [Schedules -> 0..clock']
      /\ \A s \in Schedules, t \in Instants :
            Sent(s, t)' = IF s = w /\ t \in Imminent(w, clock) THEN Sent(s, t) + 1 ELSE Sent(s, t)
      /\ \A s \in Schedules \ {w} : /\ Swept(s)' <=> Swept(s)
                                    /\ Settled(s)' <=> Settled(s)
                                    /\ since'[s] = since[s]
                                    /\ \A a, z : Covered(s, a, z)' <=> Covered(s, a, z)
      /\ Timely' /\ Once'
    BY <1>0, <1>1, <1>2, <1>w, SendingStep DEF Enqueue
<1>4. TypeOK'
  <2>1. build' \in [Builds -> Rec]
      BY <1>0, <1>1
  <2>. QED
      BY <1>3, <2>1 DEF IInv, TypeOK, Enqueue, Rec
<1>5. Wanted'
    BY <1>0, <1>1 DEF IInv, Wanted
<1>6. Matches'
  <2>. SUFFICES ASSUME Orderly' PROVE Matches'
      BY DEF Matches
  <2>1. Orderly /\ build[b] # NoBuild
      BY <1>0 DEF Orderly, Enqueue, NoBuild
  <2>2. Made(build[b]) /\ \A c \in Builds \ {b} : build[c] = NoBuild
      BY <2>1 DEF IInv, Matches
  <2>3. Made(build[b])' /\ build'[b] # NoBuild
      BY <1>0, <1>1, <1>w, <2>2 DEF Made, NoBuild, Enqueue
  <2>. QED
      BY <1>1, <2>2, <2>3 DEF Matches, AtRest
<1>7. Coverage'
  <2>. SUFFICES ASSUME Orderly', ~lapsed', ~dropped', NEW s \in Schedules, Settled(s)'
                PROVE  /\ Covered(s, since[s], NextFull(clock))'
                       /\ Swept(s)' => Covered(s, NextFull(clock), NextFull(clock) + Window)'
      BY DEF Coverage
  <2>1. CASE s # w
    <3>1. Settled(s)
        BY <1>3, <2>1
    <3>2. /\ Covered(s, since[s], NextFull(clock))
          /\ Swept(s) => Covered(s, NextFull(clock), NextFull(clock) + Window)
        BY <3>1 DEF IInv, Coverage, Orderly, Enqueue
    <3>. QED
        BY <1>3, <2>1, <3>2 DEF Enqueue
  <2>2. CASE s = w
    <3>1. TypeOK /\ Occurrences[s] \subseteq Instants
        BY Types DEF IInv
    <3>2. \A t \in Imminent(s, clock) : Sent(s, t)' > 0
        BY <1>3, <2>2, <3>1, ImminentIs, Types
    <3>3. since'[s] = clock /\ clock' = clock
        BY <1>2, <2>2, <3>1 DEF TypeOK, Enqueue
    <3>4. Covered(s, since[s], NextFull(clock))'
        BY <3>1, <3>2, <3>3, ImminentIs DEF Dealt, Covered
    <3>5. Swept(s)' => Covered(s, NextFull(clock), NextFull(clock) + Window)'
        BY <3>1, <3>2, <3>3, ImminentIs DEF Dealt, Covered, Swept
    <3>. QED
        BY <3>4, <3>5
  <2>. QED
      BY <2>1, <2>2
<1>. QED
    BY <1>3, <1>4, <1>5, <1>6, <1>7 DEF IInv

LEMMA BuildFailsStep ==
    ASSUME IInv, NEW b \in Builds, BuildFails(b) PROVE IInv'
<1>0. /\ build \in [Builds -> Rec] /\ build[b].pc # "none" /\ failed' = TRUE
      /\ build'[b] = NoBuild /\ \A c \in Builds \ {b} : build'[c] = build[c]
      /\ build' \in [Builds -> Rec]
  <2>1. build \in [Builds -> Rec] /\ NoBuild \in Rec
      BY DEF IInv, TypeOK, Rec, NoBuild
  <2>. QED
      BY <2>1 DEF BuildFails
<1>1. Wanted'
    BY <1>0 DEF IInv, Wanted, NoBuild
<1>2. Matches' /\ Coverage'
    BY <1>0 DEF Matches, Coverage, Orderly
<1>3. /\ waiting' \in [Schedules -> [Instants -> Copies]] /\ since' \in [Schedules -> 0..clock']
      /\ Timely' /\ Once'
  <2>1. CASE build[b].pc = "enqueue"
    <3>. DEFINE w == build[b].want
    <3>1. w \in Schedules
        BY <2>1 DEF IInv, Wanted
    <3>2. PICK S \in SUBSET Imminent(w, clock) : Send(w, S)
        BY <2>1 DEF BuildFails
    <3>3. since' = [since EXCEPT ![w] = clock]
        BY <2>1 DEF BuildFails
    <3>. HIDE DEF w
    <3>4. build'[b].pc # "enqueue" /\ build[b].want = w
        BY <1>0 DEF NoBuild, w
    <3>. QED
        BY <1>0, <2>1, <3>1, <3>2, <3>3, <3>4, SendingStep DEF BuildFails
  <2>2. CASE build[b].pc # "enqueue"
    <3>1. \A c \in Builds, s \in Schedules : Enqueues(c, s)' <=> Enqueues(c, s)
        BY <1>0, <2>2 DEF Enqueues, NoBuild
    <3>2. UNCHANGED <<waiting, since>>
        BY <2>2 DEF BuildFails
    <3>3. Timely' /\ Coverage' /\ Once'
        BY <1>0, <3>1, <3>2, QuietStep DEF BuildFails, Orderly, Rest
    <3>. QED
        BY <3>2, <3>3 DEF IInv, TypeOK, BuildFails
  <2>. QED
      BY <2>1, <2>2
<1>4. TypeOK'
  <2>1. spec' \in Schedules \cup {Off}
      BY <1>0 DEF IInv, TypeOK, BuildFails, Rec
  <2>2. tags' \in BOOLEAN
      BY DEF IInv, TypeOK, BuildFails
  <2>3. faults' \in 0..MaxFaults
      BY Numbers DEF IInv, TypeOK, BuildFails
  <2>. QED
      BY <1>0, <1>3, <2>1, <2>2, <2>3 DEF IInv, TypeOK, BuildFails, Rec
<1>. QED
    BY <1>1, <1>2, <1>3, <1>4 DEF IInv

-----------------------------------------------------------------------------
(* The clock and the scheduler.                                            *)

\* Where no build moves, Wanted and Matches stay.
LEMMA BuildsRest ==
    ASSUME IInv, UNCHANGED <<build, keys, spec, overlapped, failed>>
    PROVE  Wanted' /\ Matches'
BY DEF IInv, Wanted, Matches, Made, Orderly, AtRest

LEMMA TickStep ==
    ASSUME IInv, Tick PROVE IInv'
<1>. DEFINE N == NextFull(clock)
<1>0. /\ TypeOK /\ clock \in Nat /\ clock < End /\ clock' = clock + 1 /\ N \in Nat
      /\ clock < N /\ N <= clock + Window /\ clock % Window = clock + Window - N
    BY Types, Numbers DEF IInv, Tick
<1>1. IF clock' % Window = 0 THEN N = clock + 1 /\ NextFull(clock') = N + Window
                             ELSE NextFull(clock') = N /\ clock' % Window = (clock % Window) + 1
    BY <1>0, NextFullTick
<1>. HIDE DEF N
<1>2. TypeOK'
  <2>1. clock' \in Instants /\ \A n \in 0..clock : n \in 0..clock'
      BY <1>0, Numbers DEF Instants
  <2>2. since' \in [Schedules -> 0..clock']
      BY <2>1 DEF IInv, TypeOK, Tick
  <2>3. due' \in BOOLEAN /\ lapsed' \in BOOLEAN
      BY DEF IInv, TypeOK, Tick
  <2>. QED
      BY <2>1, <2>2, <2>3 DEF IInv, TypeOK, Tick
<1>3. Wanted' /\ Matches'
    BY BuildsRest DEF Tick
<1>4. ASSUME ~lapsed'
      PROVE  /\ ~lapsed /\ run' = run
             /\ due' <=> (due \/ clock' % Window = Eighth)
             /\ clock' % Window = 0 => ~due /\ ~run.on
    BY <1>0, <1>4 DEF Tick
<1>5. Timely'
  <2>. SUFFICES ASSUME ~lapsed'
                PROVE  /\ due' \/ run'.on => clock' % Window >= Eighth
                       /\ ~(due' /\ run'.on)
                       /\ run'.on => run'.from = NextFull(clock')
      BY DEF Timely
  <2>1. /\ due \/ run.on => clock % Window >= Eighth
        /\ ~(due /\ run.on)
        /\ run.on => run.from = N
      BY <1>4 DEF IInv, Timely, N
  <2>2. CASE clock' % Window = 0
      BY <1>4, <2>2, Numbers
  <2>3. CASE clock' % Window # 0
    <3>1. due' => due \/ clock' % Window = Eighth
        BY <1>4
    <3>2. clock % Window >= Eighth => clock' % Window >= Eighth
        BY <1>0, <1>1, <2>3, Numbers
    <3>3. due' \/ run'.on => clock' % Window >= Eighth
        BY <1>4, <2>1, <3>1, <3>2, Numbers
    <3>4. clock' % Window = Eighth => ~(clock % Window >= Eighth)
        BY <1>0, <1>1, <2>3, Numbers
    <3>5. ~(due' /\ run'.on)
        BY <1>4, <2>1, <3>1, <3>4
    <3>. QED
        BY <1>1, <1>4, <2>1, <2>3, <3>3, <3>5
  <2>. QED
      BY <2>2, <2>3
\* Within a window nothing is swept or unswept by the clock; at its end all is.
<1>6. ASSUME ~lapsed', NEW s \in Schedules
      PROVE  IF clock' % Window = 0 THEN Swept(s) /\ ~Swept(s)' ELSE Swept(s)' <=> Swept(s)
  <2>1. CASE clock' % Window = 0
    <3>1. clock % Window >= Eighth
        BY <1>0, <1>1, <2>1, Numbers
    <3>2. ~(clock' % Window >= Eighth)
        BY <2>1, Numbers
    <3>. QED
        BY <1>4, <1>6, <2>1, <3>1, <3>2 DEF Swept
  <2>2. CASE clock' % Window # 0
    <3>1. clock' % Window = (clock % Window) + 1 /\ clock % Window \in Nat
        BY <1>0, <1>1, <2>2, Numbers
    <3>2. (due => clock % Window >= Eighth) /\ (due' => due \/ clock' % Window = Eighth) /\ (due => due')
        BY <1>4, <1>6 DEF IInv, Timely
    <3>3. Swept(s) => Swept(s)'
      <4>1. clock % Window >= Eighth => clock' % Window >= Eighth /\ clock' % Window # Eighth
          BY <3>1, Numbers
      <4>. QED
          BY <1>4, <1>6, <3>2, <4>1 DEF Swept
    <3>4. Swept(s)' => Swept(s)
      <4>1. clock' % Window >= Eighth /\ clock' % Window # Eighth => clock % Window >= Eighth
          BY <3>1, Numbers
      <4>2. Swept(s)' => ~due' /\ clock' % Window >= Eighth /\ clock' % Window # Eighth
          BY <1>4, <1>6 DEF Swept
      <4>. QED
          BY <1>4, <1>6, <3>2, <4>1, <4>2 DEF Swept
    <3>. QED
        BY <2>2, <3>3, <3>4
  <2>. QED
      BY <2>1, <2>2
<1>7. \A s \in Schedules : /\ Settled(s)' <=> Settled(s)
                           /\ since'[s] = since[s] /\ since[s] \in Nat /\ since[s] <= clock
                           /\ \A t \in Instants : Sent(s, t)' = Sent(s, t)
                           /\ \A a, z : Covered(s, a, z)' <=> Covered(s, a, z)
    BY <1>0, Types DEF Settled, Enqueues, Sent, Dealt, Covered, Tick
<1>8. Coverage'
  <2>. SUFFICES ASSUME Orderly', ~lapsed', ~dropped', NEW s \in Schedules, Settled(s)'
                PROVE  /\ Covered(s, since[s], NextFull(clock'))
                       /\ Swept(s)' => Covered(s, NextFull(clock'), NextFull(clock') + Window)
      BY <1>7 DEF Coverage
  <2>1. Covered(s, since[s], N) /\ (Swept(s) => Covered(s, N, N + Window))
      BY <1>4, <1>7 DEF IInv, Coverage, Orderly, Tick, N
  <2>2. CASE clock' % Window = 0
    <3>1. Swept(s) /\ ~Swept(s)' /\ NextFull(clock') = N + Window
        BY <1>1, <1>6, <2>2
    <3>2. \A t \in Occurrences[s] : t \in Nat
        BY <1>0, Types DEF Instants
    <3>3. Covered(s, since[s], N + Window)
        BY <1>0, <1>7, <2>1, <3>1, <3>2, Numbers DEF Covered, Between
    <3>. QED
        BY <3>1, <3>3
  <2>3. CASE clock' % Window # 0
      BY <1>1, <1>6, <2>1, <2>3
  <2>. QED
      BY <2>2, <2>3
<1>9. Once'
  <2>. SUFFICES ASSUME ~lapsed', ~again', NEW s \in Schedules, s \notin straddled', times'[s] <= 1
                PROVE  Lone(s)'
      BY DEF Once
  <2>1. Lone(s)
      BY <1>4 DEF IInv, Once, Tick
  <2>2. Nothing(s, NextFull(clock') + Window)
    <3>1. \A t \in Instants : t \in Nat
        BY DEF Instants
    <3>. QED
        BY <1>0, <1>1, <2>1, <3>1, Numbers DEF Lone, Nothing, N
  <2>3. ~Swept(s)' /\ Early(s)' => Nothing(s, NextFull(clock'))
    <3>1. CASE clock' % Window = 0
        BY <1>1, <2>1, <3>1 DEF Lone, N
    <3>2. CASE clock' % Window # 0
      <4>1. NextFull(clock') = N /\ (Swept(s)' <=> Swept(s)) /\ (Early(s)' <=> Early(s))
          BY <1>1, <1>6, <1>7, <3>2 DEF Early, N
      <4>. QED
          BY <2>1, <4>1 DEF Lone, N
    <3>. QED
        BY <3>1, <3>2
  <2>4. \A a : Nothing(s, a)' <=> Nothing(s, a)
      BY <1>7 DEF Nothing
  <2>. QED
      BY <1>7, <2>1, <2>2, <2>3, <2>4 DEF Lone, Enqueues, Tick
<1>. QED
    BY <1>2, <1>3, <1>5, <1>8, <1>9 DEF IInv

\* A step of the scheduler that sends nothing.
LEMMA SchedulerStep ==
    ASSUME IInv, UNCHANGED <<clock, keys, build, waiting, ran, since, overlapped, failed, lapsed,
                             dropped, again, straddled, skipped, times>>,
           \A s \in Schedules : Swept(s)' <=> Swept(s)
    PROVE  Coverage' /\ Once'
<1>1. \A s \in Schedules : /\ Settled(s)' <=> Settled(s)
                           /\ Early(s)' <=> Early(s)
                           /\ \A a, z : Covered(s, a, z)' <=> Covered(s, a, z)
                           /\ \A a : Nothing(s, a)' <=> Nothing(s, a)
    BY DEF Settled, Enqueues, Early, Dealt, Covered, Sent, Nothing
<1>2. Coverage'
    BY <1>1 DEF IInv, Coverage, Orderly
<1>3. Once'
    BY <1>1 DEF IInv, Once, Lone, Enqueues, Sent
<1>. QED
    BY <1>2, <1>3

LEMMA FireStep ==
    ASSUME IInv, Fire PROVE IInv'
<1>1. /\ due /\ ~run.on /\ due' = FALSE
      /\ run' = [on |-> TRUE, from |-> NextFull(clock), left |-> Schedules]
    BY DEF Fire
<1>2. run'.on /\ run'.from = NextFull(clock) /\ run'.left = Schedules
    BY <1>1
<1>3. NextFull(clock) \in 0..(End + Window)
    BY Types, Numbers DEF IInv
<1>4. TypeOK'
  <2>1. run' \in [on : BOOLEAN, from : 0..(End + Window), left : SUBSET Schedules]
      BY <1>1, <1>3
  <2>2. due' \in BOOLEAN
      BY <1>1
  <2>. QED
      BY <2>1, <2>2 DEF IInv, TypeOK, Fire, ghosts
<1>5. \A s \in Schedules : Swept(s)' <=> Swept(s)
    BY <1>1, <1>2 DEF Swept
<1>6. Wanted' /\ Matches' /\ Coverage' /\ Once'
    BY <1>5, BuildsRest, SchedulerStep DEF Fire, ghosts
<1>7. Timely'
    BY <1>1, <1>2 DEF IInv, Timely, Fire, ghosts
<1>. QED
    BY <1>4, <1>6, <1>7 DEF IInv

LEMMA EndRunStep ==
    ASSUME IInv, EndRun PROVE IInv'
<1>1. run.on /\ run.left = {} /\ run' = NoRun /\ ~run'.on
    BY DEF EndRun, NoRun
<1>2. TypeOK'
  <2>1. run' \in [on : BOOLEAN, from : 0..(End + Window), left : SUBSET Schedules]
      BY <1>1, Numbers DEF NoRun
  <2>. QED
      BY <2>1 DEF IInv, TypeOK, EndRun, ghosts
<1>3. \A s \in Schedules : Swept(s)' <=> Swept(s)
    BY <1>1 DEF Swept, EndRun
<1>4. Wanted' /\ Matches' /\ Coverage' /\ Once'
    BY <1>3, BuildsRest, SchedulerStep DEF EndRun, ghosts
<1>5. Timely'
    BY <1>1 DEF IInv, Timely, EndRun, ghosts
<1>. QED
    BY <1>2, <1>4, <1>5 DEF IInv

LEMMA RunDiesStep ==
    ASSUME IInv, RunDies PROVE IInv'
<1>1. run.on /\ run' = NoRun /\ ~run'.on /\ due' = TRUE /\ again' = TRUE
    BY DEF RunDies, NoRun
<1>2. TypeOK'
  <2>1. run' \in [on : BOOLEAN, from : 0..(End + Window), left : SUBSET Schedules]
      BY <1>1, Numbers DEF NoRun
  <2>2. faults' \in 0..MaxFaults
      BY Numbers DEF IInv, TypeOK, RunDies
  <2>. QED
      BY <1>1, <2>1, <2>2 DEF IInv, TypeOK, RunDies
<1>3. \A s \in Schedules : ~Swept(s)' /\ (Settled(s)' <=> Settled(s))
                           /\ \A a, z : Covered(s, a, z)' <=> Covered(s, a, z)
    BY <1>1 DEF Swept, Settled, Enqueues, Dealt, Covered, Sent, RunDies
<1>4. Coverage'
    BY <1>3 DEF IInv, Coverage, Orderly, RunDies
<1>5. Once' /\ Timely'
    BY <1>1 DEF IInv, Once, Timely, RunDies
<1>6. Wanted' /\ Matches'
    BY BuildsRest DEF RunDies
<1>. QED
    BY <1>2, <1>4, <1>5, <1>6 DEF IInv

\* What the scheduler sends is all that the limit allows for its window.
LEMMA ScheduledIs ==
    ASSUME IInv, ~lapsed, run.on, NEW s \in Schedules
    PROVE  /\ Scheduled(s) \subseteq Instants
           /\ \A t \in Scheduled(s) : NextFull(clock) < t /\ t <= NextFull(clock) + Window
           /\ \A t \in Between(s, NextFull(clock), NextFull(clock) + Window) :
                 InLimit(s, t) => t \in Scheduled(s)
<1>. DEFINE N == NextFull(clock)
<1>0. /\ clock \in Nat /\ N \in Nat /\ clock % Window = clock + Window - N
      /\ run.from = N /\ clock % Window >= Eighth /\ Occurrences[s] \subseteq Instants
    BY Types DEF IInv, Timely
<1>. HIDE DEF N
<1>1. Scheduled(s) = {t \in Few(Between(s, N, N + Window)) : t <= clock + MaxDelay}
    BY <1>0 DEF Scheduled
<1>2. \A t \in Few(Between(s, N, N + Window)) : t \in Instants /\ t \in Nat /\ N < t /\ t <= N + Window
    BY <1>0 DEF Few, Between, Instants
<1>3. ASSUME NEW t \in Between(s, N, N + Window), InLimit(s, t)
      PROVE  t \in Scheduled(s)
  <2>1. t \in Nat /\ N < t /\ t <= N + Window
      BY <1>0 DEF Between, Instants
  <2>2. ((t - 1) \div Window) * Window = N /\ NextFull(t - 1) = N + Window
      BY <1>0, <2>1, WindowOf DEF N
  <2>3. t \in Few(Between(s, N, N + Window))
      BY <1>3, <2>2 DEF InLimit
  <2>4. t <= clock + MaxDelay
      BY <1>0, <2>1, Numbers, DelayAssumption
  <2>. QED
      BY <1>1, <2>3, <2>4
<1>. QED
    BY <1>1, <1>2, <1>3 DEF N

LEMMA VisitStep ==
    ASSUME IInv, NEW s \in Schedules, Visit(s) PROVE IInv'
<1>0. TypeOK /\ run.on /\ s \in run.left /\ run' = [run EXCEPT !.left = run.left \ {s}]
    BY DEF IInv, Visit
<1>1. /\ run' \in [on : BOOLEAN, from : 0..(End + Window), left : SUBSET Schedules]
      /\ run'.on /\ run'.from = run.from /\ run'.left = run.left \ {s}
    BY <1>0 DEF TypeOK
\* Whatever it sends is a part of what it should, and all of it unless SQS
\* refused some.
<1>2. PICK S \in SUBSET Instants :
        /\ S \subseteq Scheduled(s)
        /\ S # {} => s \in keys
        /\ s \in keys => Send(s, S)
        /\ s \notin keys => waiting' = waiting
        /\ s \in keys /\ ~dropped' => S = Scheduled(s)
  <2>1. Scheduled(s) \subseteq Instants
      BY <1>0, Types DEF Scheduled, Few, Between
  <2>2. CASE s \notin keys
    <3>1. waiting' = waiting
        BY <2>2 DEF Visit
    <3>. WITNESS {} \in SUBSET Instants
    <3>. QED
        BY <2>2, <3>1
  <2>3. CASE s \in keys
    <3>1. CASE Send(s, Scheduled(s)) /\ UNCHANGED <<dropped, faults>>
        BY <2>1, <2>3, <3>1
    <3>2. CASE dropped' /\ \E R \in SUBSET Scheduled(s) : R # Scheduled(s) /\ Send(s, R)
        BY <2>1, <2>3, <3>2
    <3>. QED
        BY <2>3, <3>1, <3>2 DEF Visit
  <2>. QED
      BY <2>2, <2>3
<1>3. /\ waiting' \in [Schedules -> [Instants -> Copies]]
      /\ \A r \in Schedules, t \in Instants :
            waiting'[r][t] = IF r = s /\ t \in S THEN waiting[r][t] + 1 ELSE waiting[r][t]
  <2>1. CASE s \in keys
      BY <1>0, <1>2, <2>1, SendIs
  <2>2. CASE s \notin keys
      BY <1>0, <1>2, <2>2 DEF TypeOK
  <2>. QED
      BY <2>1, <2>2
<1>4. \A r \in Schedules, t \in Instants :
          Sent(r, t)' = IF r = s /\ t \in S THEN Sent(r, t) + 1 ELSE Sent(r, t)
  <2>. TAKE r \in Schedules, t \in Instants
  <2>1. waiting[r][t] \in Nat /\ ran[r][t] \in Nat /\ ran'[r][t] = ran[r][t]
      BY <1>0, Types DEF Visit
  <2>. QED
      BY <1>3, <2>1 DEF Sent
<1>5. TypeOK'
  <2>1. faults' \in 0..MaxFaults /\ straddled' \subseteq Schedules
      BY Numbers DEF IInv, TypeOK, Visit
  <2>2. dropped' \in BOOLEAN
      BY DEF IInv, TypeOK, Visit
  <2>. QED
      BY <1>1, <1>3, <2>1, <2>2 DEF IInv, TypeOK, Visit
<1>6. Wanted' /\ Matches'
    BY BuildsRest DEF Visit
<1>7. Timely'
    BY <1>1 DEF IInv, Timely, Visit
<1>8. \A r \in Schedules : Settled(r)' <=> Settled(r)
    BY DEF Settled, Enqueues, Visit
<1>9. \A r \in Schedules \ {s} : Swept(r)' <=> Swept(r)
    BY <1>0, <1>1 DEF Swept, Visit
<1>10. ~Swept(s) /\ (dropped => dropped')
    BY <1>0 DEF Swept, Visit
<1>11. Coverage'
  <2>. SUFFICES ASSUME Orderly', ~lapsed', ~dropped', NEW r \in Schedules, Settled(r)'
                PROVE  /\ Covered(r, since[r], NextFull(clock))'
                       /\ Swept(r)' => Covered(r, NextFull(clock), NextFull(clock) + Window)'
      BY DEF Coverage
  <2>1. /\ Covered(r, since[r], NextFull(clock))
        /\ Swept(r) => Covered(r, NextFull(clock), NextFull(clock) + Window)
      BY <1>8, <1>10 DEF IInv, Coverage, Orderly, Visit
  <2>2. \A a, z : Covered(r, a, z) => Covered(r, a, z)'
    <3>1. \A t \in Instants : Sent(r, t) > 0 => Sent(r, t)' > 0
        BY <1>0, <1>4, Types
    <3>. QED
        BY <1>0, <3>1, Types DEF Dealt, Covered, Between, Visit
  <2>3. CASE r # s
      BY <1>9, <2>1, <2>2, <2>3 DEF Visit
  <2>4. CASE r = s
    <3>1. s \in keys /\ S = Scheduled(s)
        BY <1>2, <1>8, <2>4 DEF Settled
    <3>2. ~lapsed
        BY DEF Visit
    <3>3. \A t \in Between(s, NextFull(clock), NextFull(clock) + Window) :
              InLimit(s, t) => Sent(s, t)' > 0
        BY <1>0, <1>4, <3>1, <3>2, ScheduledIs, Types
    <3>4. Covered(r, NextFull(clock), NextFull(clock) + Window)'
        BY <2>4, <3>3 DEF Dealt, Covered, Visit
    <3>. QED
        BY <2>1, <2>2, <3>4 DEF Visit
  <2>. QED
      BY <2>3, <2>4
<1>12. Once'
  <2>. SUFFICES ASSUME ~lapsed', ~again', NEW r \in Schedules, r \notin straddled', times'[r] <= 1
                PROVE  Lone(r)'
      BY DEF Once
  <2>1. Lone(r) /\ ~lapsed
      BY DEF IInv, Once, Visit
  <2>2. Early(r)' <=> Early(r)
      BY DEF Early, Visit
  <2>3. CASE r # s \/ S = {}
    <3>1. \A t \in Instants : Sent(r, t)' = Sent(r, t)
        BY <1>4, <2>3
    <3>2. Swept(r) => Swept(r)'
        BY <1>9, <1>10
    <3>3. \A a : Nothing(r, a)' <=> Nothing(r, a)
        BY <3>1 DEF Nothing
    <3>. QED
        BY <2>1, <2>2, <3>1, <3>2, <3>3 DEF Lone, Enqueues, Visit
  <2>4. CASE r = s /\ S # {}
    <3>1. s \in keys /\ ~Straddles(s)
        BY <1>2, <2>4 DEF Visit
    <3>2. \A b \in Builds : ~Enqueues(b, s)
        BY <3>1 DEF Straddles, Enqueues
    <3>3. Early(s)
        BY <1>0, <2>1, <3>1, Types, Numbers DEF Straddles, Early, IInv, Timely
    <3>4. Nothing(s, NextFull(clock)) /\ Nothing(s, NextFull(clock) + Window) /\ times[s] # 0
        BY <1>10, <2>1, <2>4, <3>1, <3>3 DEF Lone
    <3>5. \A t \in S : t \in Nat /\ NextFull(clock) < t /\ t <= NextFull(clock) + Window
        BY <1>0, <1>2, <2>1, ScheduledIs DEF Instants
    <3>6. \A t \in Instants : Sent(s, t)' <= 1
        BY <1>4, <2>1, <2>4, <3>4, <3>5 DEF Lone, Nothing
    <3>7. Nothing(s, NextFull(clock) + Window)'
      <4>1. \A t \in Instants : t > NextFull(clock) + Window => t \notin S
          BY <1>0, <3>5, Types, Numbers
      <4>. QED
          BY <1>4, <3>4, <4>1 DEF Nothing, Visit
    <3>8. Swept(s)'
        BY <1>0, <1>1, <2>1, <2>4 DEF Swept, IInv, Timely, Visit
    <3>. QED
        BY <2>1, <2>4, <3>2, <3>4, <3>6, <3>7, <3>8 DEF Lone, Enqueues, Visit
  <2>. QED
      BY <2>3, <2>4
<1>. QED
    BY <1>5, <1>6, <1>7, <1>11, <1>12 DEF IInv

-----------------------------------------------------------------------------
(* The executor.                                                           *)

\* A message is done with: unless the function runs for it, or there is no
\* object, it is noted as dropped.
LEMMA DoneStep ==
    ASSUME IInv, NEW s \in Schedules, NEW u \in Instants,
           waiting[s][u] > 0, Taken(s, u),
           (Executed(s, u) /\ skipped' = skipped) \/ (ran' = ran /\ Skipped(s, u))
               \/ (ran' = ran /\ skipped' = skipped /\ s \notin keys),
           faults' \in 0..MaxFaults,
           UNCHANGED <<clock, keys, spec, tags, build, due, run, started, since, overlapped, failed,
                       lapsed, dropped, again, straddled, times>>
    PROVE  IInv'
<1>0. /\ TypeOK
      /\ waiting \in [Schedules -> [Instants -> Copies]]
      /\ ran \in [Schedules -> [Instants -> Copies]]
      /\ skipped \in [Schedules -> SUBSET Instants]
      /\ waiting' = [waiting EXCEPT ![s][u] = waiting[s][u] - 1]
    BY DEF IInv, TypeOK, Taken
<1>1. /\ waiting' \in [Schedules -> [Instants -> Copies]]
      /\ \A r \in Schedules, t \in Instants :
            waiting'[r][t] = IF r = s /\ t = u THEN waiting[r][t] - 1 ELSE waiting[r][t]
    BY <1>0, Numbers DEF Copies
<1>2. /\ ran' \in [Schedules -> [Instants -> Copies]]
      /\ \A r \in Schedules, t \in Instants :
            ran'[r][t] = ran[r][t] \/ (r = s /\ t = u /\ ran'[r][t] = ran[r][t] + 1)
  <2>1. CASE ran' = ran
      BY <1>0, <2>1
  <2>2. CASE Executed(s, u)
    <3>1. ran[s][u] < MaxCopies /\ ran' = [ran EXCEPT ![s][u] = ran[s][u] + 1]
        BY <2>2 DEF Executed
    <3>. QED
        BY <1>0, <3>1, Numbers DEF Copies
  <2>. QED
      BY <2>1, <2>2
<1>3. /\ skipped' \in [Schedules -> SUBSET Instants]
      /\ \A r \in Schedules, t \in Instants : t \in skipped[r] => t \in skipped'[r]
  <2>1. CASE skipped' = skipped
      BY <1>0, <2>1
  <2>2. CASE Skipped(s, u)
      BY <1>0, <2>2 DEF Skipped
  <2>. QED
      BY <2>1, <2>2
\* The occurrence keeps what it had, or is dropped, where there is an object.
<1>4. s \in keys => (ran'[s][u] = ran[s][u] + 1) \/ u \in skipped'[s]
    BY <1>0 DEF Executed, Skipped
<1>5. \A r \in Schedules, t \in Instants :
        /\ Sent(r, t)' \in Nat /\ Sent(r, t)' <= Sent(r, t)
        /\ r # s \/ t # u => Sent(r, t)' = Sent(r, t)
        /\ ran'[r][t] = ran[r][t] + 1 /\ r = s /\ t = u => Sent(r, t)' = Sent(r, t)
  <2>. TAKE r \in Schedules, t \in Instants
  <2>1. waiting[r][t] \in Nat /\ ran[r][t] \in Nat
      BY <1>0, Types
  <2>2. Sent(r, t) = waiting[r][t] + ran[r][t] /\ Sent(r, t)' = waiting'[r][t] + ran'[r][t]
      BY DEF Sent
  <2>3. r = s /\ t = u => waiting[r][t] > 0
      OBVIOUS
  <2>4. /\ waiting'[r][t] = IF r = s /\ t = u THEN waiting[r][t] - 1 ELSE waiting[r][t]
        /\ ran'[r][t] = ran[r][t] \/ (r = s /\ t = u /\ ran'[r][t] = ran[r][t] + 1)
      BY <1>1, <1>2
  <2>. QED
      BY <2>1, <2>2, <2>3, <2>4
<1>6. TypeOK'
    BY <1>1, <1>2, <1>3 DEF IInv, TypeOK
<1>7. Wanted' /\ Matches'
    BY BuildsRest
<1>8. Timely' /\ \A r \in Schedules : /\ Settled(r)' <=> Settled(r)
                                      /\ Swept(r)' <=> Swept(r)
                                      /\ Early(r)' <=> Early(r)
    BY DEF IInv, Timely, Settled, Enqueues, Swept, Early
<1>9. Coverage'
  <2>. SUFFICES ASSUME Orderly', ~lapsed', ~dropped', NEW r \in Schedules, Settled(r)'
                PROVE  /\ Covered(r, since[r], NextFull(clock))'
                       /\ Swept(r)' => Covered(r, NextFull(clock), NextFull(clock) + Window)'
      BY DEF Coverage
  <2>1. /\ Covered(r, since[r], NextFull(clock))
        /\ Swept(r) => Covered(r, NextFull(clock), NextFull(clock) + Window)
      BY <1>8 DEF IInv, Coverage, Orderly
  <2>2. \A t \in Instants : Dealt(r, t) => Dealt(r, t)'
    <3>. SUFFICES ASSUME NEW t \in Instants, Dealt(r, t) PROVE Dealt(r, t)'
        OBVIOUS
    <3>1. CASE t \in skipped[r] \/ t \in skipped'[r]
        BY <1>3, <3>1 DEF Dealt
    <3>2. CASE ~(t \in skipped[r] \/ t \in skipped'[r])
      <4>1. Sent(r, t) > 0
          BY <3>2 DEF Dealt
      <4>2. Sent(r, t)' = Sent(r, t)
          BY <1>4, <1>5, <1>8, <3>2 DEF Settled
      <4>. QED
          BY <4>1, <4>2 DEF Dealt
    <3>. QED
        BY <3>1, <3>2
  <2>3. \A a, z : Covered(r, a, z) => Covered(r, a, z)'
      BY <1>0, <2>2, Types DEF Covered, Between
  <2>. QED
      BY <1>8, <2>1, <2>3
<1>10. Once'
  <2>. SUFFICES ASSUME ~lapsed', ~again', NEW r \in Schedules, r \notin straddled', times'[r] <= 1
                PROVE  Lone(r)'
      BY DEF Once
  <2>1. Lone(r)
      BY DEF IInv, Once
  <2>2. \A t \in Instants : /\ Sent(r, t) = 0 => Sent(r, t)' = 0
                            /\ Sent(r, t) <= 1 => Sent(r, t)' <= 1
      BY <1>0, <1>5, Types
  <2>3. \A a : Nothing(r, a) => Nothing(r, a)'
      BY <2>2 DEF Nothing
  <2>. QED
      BY <1>8, <2>1, <2>2, <2>3 DEF Lone, Enqueues
<1>. QED
    BY <1>6, <1>7, <1>8, <1>9, <1>10 DEF IInv

LEMMA TakeStep ==
    ASSUME IInv, NEW s \in Schedules, NEW u \in Instants, Take(s, u) PROVE IInv'
<1>1. waiting[s][u] > 0 /\ Taken(s, u)
    BY DEF Take, Received
<1>2. \/ Executed(s, u) /\ skipped' = skipped
      \/ ran' = ran /\ Skipped(s, u)
      \/ ran' = ran /\ skipped' = skipped /\ s \notin keys
    BY DEF Take
<1>3. faults' \in 0..MaxFaults
    BY DEF IInv, TypeOK, Take
<1>. QED
    BY <1>1, <1>2, <1>3, DoneStep DEF Take

LEMMA TakeFailsStep ==
    ASSUME IInv, NEW s \in Schedules, NEW u \in Instants, TakeFails(s, u) PROVE IInv'
<1>1. waiting[s][u] > 0 /\ Taken(s, u) /\ ran' = ran /\ Skipped(s, u)
    BY DEF TakeFails, Received
<1>2. faults' \in 0..MaxFaults
    BY Numbers DEF IInv, TypeOK, TakeFails
<1>. QED
    BY <1>1, <1>2, DoneStep DEF TakeFails

LEMMA TakeAndDieStep ==
    ASSUME IInv, NEW s \in Schedules, NEW u \in Instants, TakeAndDie(s, u) PROVE IInv'
<1>0. /\ TypeOK /\ ran[s][u] < MaxCopies
      /\ ran' = [ran EXCEPT ![s][u] = ran[s][u] + 1]
      /\ ran \in [Schedules -> [Instants -> Copies]]
    BY DEF IInv, TypeOK, TakeAndDie, Executed
<1>1. ran' \in [Schedules -> [Instants -> Copies]]
    BY <1>0, Numbers DEF Copies
<1>2. \A r \in Schedules, t \in Instants : Sent(r, t) > 0 => Sent(r, t)' > 0
  <2>. TAKE r \in Schedules, t \in Instants
  <2>1. waiting[r][t] \in Nat /\ ran[r][t] \in Nat
      BY <1>0, Types
  <2>2. ran'[r][t] = IF r = s /\ t = u THEN ran[r][t] + 1 ELSE ran[r][t]
      BY <1>0
  <2>3. Sent(r, t) = waiting[r][t] + ran[r][t] /\ Sent(r, t)' = waiting[r][t] + ran'[r][t]
      BY DEF Sent, TakeAndDie
  <2>. QED
      BY <2>1, <2>2, <2>3
<1>3. TypeOK'
  <2>1. faults' \in 0..MaxFaults /\ again' = TRUE
      BY Numbers DEF IInv, TypeOK, TakeAndDie
  <2>. QED
      BY <1>1, <2>1 DEF IInv, TypeOK, TakeAndDie
<1>4. Wanted' /\ Matches'
    BY BuildsRest DEF TakeAndDie
<1>5. Timely' /\ Once'
    BY DEF IInv, Timely, Once, TakeAndDie
<1>6. \A r \in Schedules : /\ Settled(r)' <=> Settled(r)
                           /\ Swept(r)' <=> Swept(r)
                           /\ \A a, z : Covered(r, a, z) => Covered(r, a, z)'
    BY <1>0, <1>2, Types DEF Settled, Enqueues, Swept, Dealt, Covered, Between, TakeAndDie
<1>7. Coverage'
    BY <1>6 DEF IInv, Coverage, Orderly, TakeAndDie
<1>. QED
    BY <1>3, <1>4, <1>5, <1>7 DEF IInv

-----------------------------------------------------------------------------
LEMMA NextIInv ==
    ASSUME IInv, [Next]_vars PROVE IInv'
<1>1. CASE UNCHANGED vars
  <2>1. TypeOK' /\ Wanted' /\ Matches'
      BY <1>1, BuildsRest DEF IInv, TypeOK, vars, system, ghosts
  <2>2. \A b \in Builds, s \in Schedules : Enqueues(b, s)' <=> Enqueues(b, s)
      BY <1>1 DEF Enqueues, vars, system
  <2>3. Timely' /\ Coverage' /\ Once'
      BY <1>1, <2>2, QuietStep DEF Rest, Orderly, vars, system, ghosts
  <2>. QED
      BY <2>1, <2>3 DEF IInv
<1>2. ASSUME NEW b \in Builds,
             Put(b) \/ Remove(b) \/ DeleteKeys(b) \/ Register(b) \/ Enqueue(b) \/ BuildFails(b) \/ Save(b)
      PROVE  IInv'
    BY <1>2, PutStep, RemoveStep, DeleteKeysStep, RegisterStep, EnqueueStep, BuildFailsStep, SaveStep
<1>3. CASE Tick \/ Fire \/ EndRun \/ RunDies
    BY <1>3, TickStep, FireStep, EndRunStep, RunDiesStep
<1>4. ASSUME NEW s \in Schedules, Visit(s) PROVE IInv'
    BY <1>4, VisitStep
<1>5. ASSUME NEW s \in Schedules, NEW t \in Instants,
             Take(s, t) \/ TakeFails(s, t) \/ TakeAndDie(s, t)
      PROVE  IInv'
    BY <1>5, TakeStep, TakeFailsStep, TakeAndDieStep
<1>. QED
    BY <1>1, <1>2, <1>3, <1>4, <1>5 DEF Next

LEMMA Inductive == Spec => []IInv
<1>1. Init => IInv
    BY InitIInv
<1>2. IInv /\ [Next]_vars => IInv'
    BY NextIInv
<1>. QED
    BY <1>1, <1>2, PTL DEF Spec

\* Builds, scheduler, messages and executions keep their types, whatever
\* overlaps, fails, or comes late (CronSchedule, TypeOK).
THEOREM TypeCorrect == Spec => []TypeOK
<1>1. IInv => TypeOK
    BY DEF IInv
<1>. QED
    BY <1>1, Inductive, PTL

\* enqueue_imminent_cron and the scheduler leave no gap between them, wherever
\* in its ten minutes a build happens: each occurrence has its message, or the
\* executor took it while the object was there (CronSchedule, NoGap).
THEOREM NoOccurrenceMissed == Spec => []NoGap
<1>1. ASSUME IInv PROVE NoGap
  <2>. SUFFICES ASSUME Orderly, ~lapsed, ~dropped, AtRest, spec # Off,
                       NEW t \in Occurrences[spec], since[spec] < t, t <= clock, InLimit(spec, t)
                PROVE  Dealt(spec, t)
      BY DEF NoGap, Orderly, Sent, Dealt
  <2>1. spec \in Schedules /\ keys = {spec}
      BY <1>1 DEF IInv, TypeOK, Matches
  <2>2. Settled(spec)
      BY <2>1 DEF Settled, Enqueues, AtRest, NoBuild
  <2>3. Covered(spec, since[spec], NextFull(clock))
      BY <1>1, <2>1, <2>2 DEF IInv, Coverage
  <2>4. t \in Nat /\ t <= NextFull(clock)
      BY <1>1, <2>1, Types, Numbers DEF IInv, Instants
  <2>. QED
      BY <2>3, <2>4 DEF Covered, Between
<1>. QED
    BY <1>1, Inductive, PTL

\* The build and the scheduler share out the occurrences of a schedule, unless
\* both dealt with it from the 8th minute on (CronSchedule, RanOnce).
THEOREM NoOccurrenceTwice == Spec => []RanOnce
<1>1. IInv => RanOnce
    BY DEF IInv, Once, Lone, RanOnce, Sent
<1>. QED
    BY <1>1, Inductive, PTL

\* Requests that come one after the other leave the objects of the schedule
\* that the specification names, and no other (CronSchedule, KeysMatchSpec).
THEOREM KeysFollowSpec == Spec => []KeysMatchSpec
<1>1. IInv => KeysMatchSpec
    BY DEF IInv, Matches, Orderly, KeysMatchSpec
<1>. QED
    BY <1>1, Inductive, PTL

=============================================================================
