------------------------- MODULE AgentAccessProofs -------------------------
(***************************************************************************)
(* What AgentAccess promises, for every number of agents, identities,      *)
(* permissions, requests and tokens.                                       *)
(*                                                                         *)
(* CoreInv holds of all requests: which calls they have under way          *)
(* together, which agents and tokens they name, how tokens follow each     *)
(* other.  ExactInv and IssuersInv, as long as no two requests for one     *)
(* agent overlap: how far each request has written its agent, and which    *)
(* issuers are there.  Each is kept by every action, whose lemma is named  *)
(* for it.                                                                 *)
(***************************************************************************)
EXTENDS AgentAccess, TLAPS

-----------------------------------------------------------------------------
(* The inductive invariant: where a request may stand.                     *)

\* The calls a request may have under way.
Allowed(q, k) ==
    \/ q.op = "add" /\ k \in {"insertRow", "claim", "putAccess", "undoRow"}
    \/ q.op = "delete" /\ k \in {"deleteRow", "listIds", "dropAllIds", "listAccess",
                                 "dropAccess", "checkIssuer", "deleteIssuer"}
    \/ q.op = "init" /\ k \in {"checkRow", "putToken"}
    \/ q.op = "resolve" /\ q.stage = "token" /\ k \in {"readToken", "deleteToken"}
    \/ q.op = "resolve" /\ q.stage = "get" /\ k \in {"getRow", "getIds", "getAccess"}
    \/ q.op = "resolve" /\ q.stage = "issuer" /\ k = "addIssuer"
    \/ /\ q.op = "update" \/ (q.op = "resolve" /\ q.stage = "write")
       /\ k \in {"updateRow", "readIds", "claim", "dropIds", "readAccess", "putAccess",
                 "dropAccess"}

\* A call k is answered before a call l is made.
Precedes(k, l) ==
    \/ k = "insertRow" /\ l \in {"claim", "putAccess", "undoRow"}
    \/ k = "readIds" /\ l \in {"claim", "dropIds"}
    \/ k = "readAccess" /\ l \in {"putAccess", "dropAccess"}
    \/ k = "listIds" /\ l \in {"dropAllIds", "listAccess", "dropAccess", "checkIssuer", "deleteIssuer"}
    \/ k = "dropAllIds" /\ l \in {"listAccess", "dropAccess", "checkIssuer", "deleteIssuer"}
    \/ k = "listAccess" /\ l = "dropAccess"
    \/ k = "checkRow" /\ l = "putToken"
    \/ k = "readToken" /\ l = "deleteToken"

Plain == {"insertRow", "undoRow", "updateRow", "deleteRow", "readIds", "listIds", "readAccess",
          "listAccess", "checkRow", "putToken", "readToken", "getRow", "getIds", "getAccess"}
Batch == {"dropIds", "dropAllIds", "putAccess", "dropAccess", "deleteToken"}

Fits(q, C) ==
    /\ \A c \in C : Allowed(q, c.do)
    /\ \A c \in C : c.do \in Plain => c.arg = {}
    /\ \A c, d \in C : c.do = d.do /\ c.do \in Batch => c = d
    /\ \A c, d \in C : ~Precedes(c.do, d.do)
    /\ \A c \in C : c.do = "claim" => q.ids # Keep /\ \E i \in q.ids : c.arg = {i}
    /\ \A c \in C : c.do \in {"dropIds", "dropAllIds"} => c.arg \subseteq Identities
    /\ \A c \in C : c.do \in {"putAccess", "dropAccess"} => c.arg \subseteq Entries
    /\ \A c \in C : c.do \in {"checkIssuer", "deleteIssuer"} => \E i \in Cli : c.arg = {i}
    /\ \A c \in C : c.do = "addIssuer" => c.arg = {q.new}
    /\ \A c \in C : c.do = "undoRow" => q.failed

\* What a request is about, at each of its stages.
Placed(q) ==
    /\ q.op = "none" => q = Idle
    /\ q.op \in {"add", "update", "delete"} => q.stage = "write"
    /\ q.op = "init" => q.stage = "token" /\ q.ids = Keep
    /\ q.op = "add" => q.ids # Keep /\ q.acc # Keep
    /\ q.op = "resolve" => q.stage # "done" /\ q.new # None
    /\ q.op # "resolve" => q.new = None
    /\ q.stage \in {"get", "issuer"} => q.op = "resolve"

\* A request that waits for a token or an issuer has a call under way.
Waits(q, C) == q.op = "resolve" /\ q.stage \in {"token", "issuer"} /\ C = {} => q.failed

Control == \A r \in Requests : Placed(req[r]) /\ Fits(req[r], calls[r]) /\ Waits(req[r], calls[r])

\* The requests name agents whose ids are known and tokens that were issued,
\* a deletion knows the identities it is to drop, and issuers are added for
\* identities of Cli only.
Names ==
    /\ \A r \in Requests : req[r].op # "none" => req[r].agent \in known
    /\ \A r \in Requests : req[r].op = "resolve" =>
          req[r].tok \in Issued /\ tokens[req[r].tok].agent = req[r].agent
    /\ \A r \in Requests : \A i \in Cli :
          With("checkIssuer", {i}) \in calls[r] \/ With("deleteIssuer", {i}) \in calls[r]
          => \E n \in Issued : tokens[n] = [agent |-> req[r].agent, cli |-> i]
    /\ \A r \in Requests : \A c \in calls[r] : c.do = "dropAllIds" => req[r].ids # Keep
    /\ \A r \in Requests : req[r].op = "resolve" /\ req[r].stage = "issuer" => req[r].new \in Cli

\* Tokens are issued in turn; the token an agent has is newer than any that
\* has let in a request.
InTurn ==
    /\ \A m, n \in Tokens : m < n /\ n \in Issued => m \in Issued
    /\ \A n \in Issued : tokens[n].agent \in known
    /\ \A m, n \in Issued : tokens[m].cli = tokens[n].cli => m = n \/ tokens[m].cli = None
    /\ \A a \in Agents : token[a] # 0 => token[a] \in Issued /\ tokens[token[a]].agent = a
    /\ \A n \in Tokens : passed[n] > 0 =>
          n \in Issued /\ (token[tokens[n].agent] = 0 \/ token[tokens[n].agent] > n)

\* Nobody has had to do with identity i.
Unused(i) ==
    /\ i \notin issuers /\ owner[i] = None
    /\ \A r \in Requests : req[r].new # i /\ (req[r].ids # Keep => i \notin req[r].ids)

\* An identity of Cli occurs only once there is a token for it.
FromToken == \A i \in Cli : (\E n \in Issued : tokens[n].cli = i) \/ Unused(i)

\* Nothing is stored or said of an agent whose id has not been given out.
Fresh ==
    /\ broken \subseteq known
    /\ \A i \in Identities : owner[i] \in known \cup {None}
    /\ \A a \in Agents \ known : a \notin row /\ access[a] = {} /\ said[a] = Nothing

-----------------------------------------------------------------------------
(* One request moves at a time.                                            *)

\* The request r is now q with the calls C, and the others are as before.
Becomes(r, q, C) ==
    /\ req' = [req EXCEPT ![r] = q] /\ calls' = [calls EXCEPT ![r] = C]
    /\ q \in Request /\ C \subseteq Call
    /\ Placed(q) /\ Fits(q, C) /\ Waits(q, C)

\* Some request moves to a place where it may stand.
Moves(r) == \E q \in Request, C \in SUBSET Call : Becomes(r, q, C)

\* Calls and requests have their types.
LEMMA Made ==
    /\ \A k \in Plain : Do(k) \in Call /\ Do(k).do = k /\ Do(k).arg = {}
    /\ \A k, x : With(k, x).do = k /\ With(k, x).arg = x
    /\ \A k \in Batch \cup {"claim", "checkIssuer", "deleteIssuer", "addIssuer"},
         x \in SUBSET (Identities \cup Entries \cup Tokens) : With(k, x) \in Call
<1>1. \A k \in Plain : Do(k) \in Call /\ Do(k).do = k /\ Do(k).arg = {}
  <2> TAKE k \in Plain
  <2>1. Do(k).do = k /\ Do(k).arg = {}
    BY DEF Do
  <2>2. {} \in SUBSET (Identities \cup Entries \cup Tokens)
    OBVIOUS
  <2>3. Do(k) \in Call
    BY <2>2 DEF Do, Call, Plain
  <2> QED
    BY <2>1, <2>3
<1>2. \A k, x : With(k, x).do = k /\ With(k, x).arg = x
  BY DEF With
<1>3. \A k \in Batch \cup {"claim", "checkIssuer", "deleteIssuer", "addIssuer"},
         x \in SUBSET (Identities \cup Entries \cup Tokens) : With(k, x) \in Call
  BY DEF With, Call, Batch
<1> QED
  BY <1>1, <1>2, <1>3

LEMMA Failed ==
    ASSUME NEW q \in Request
    PROVE  LET f == [q EXCEPT !.failed = TRUE]
           IN /\ f \in Request /\ f.failed /\ f.op = q.op /\ f.agent = q.agent /\ f.ids = q.ids
              /\ f.acc = q.acc /\ f.tok = q.tok /\ f.new = q.new /\ f.stage = q.stage
<1> DEFINE f == [q EXCEPT !.failed = TRUE]
<1>1. /\ f.op = q.op /\ f.agent = q.agent /\ f.ids = q.ids
      /\ f.acc = q.acc /\ f.tok = q.tok /\ f.new = q.new /\ f.stage = q.stage
  BY DEF Request
<1>2. f.failed
  BY Zenon DEF Request
<1>3. f \in Request
  BY DEF Request
<1> QED
  BY <1>1, <1>2, <1>3

\* Fewer calls are still calls that the request may have.
LEMMA FitsLess ==
    ASSUME NEW q, NEW C, NEW D \in SUBSET C, Fits(q, C)
    PROVE  Fits(q, D)
BY DEF Fits

\* So are those of a request that has failed, and undoing its row when it adds.
LEMMA FitsFailed ==
    ASSUME NEW q \in Request, NEW C, Fits(q, C), NEW c \in C,
           NEW undo \in BOOLEAN, undo => q.op = "add" /\ c.do \in {"claim", "putAccess"}
    PROVE  LET f == [q EXCEPT !.failed = TRUE]
           IN Fits(f, (C \ {c}) \cup IF undo THEN {Do("undoRow")} ELSE {})
<1> DEFINE f == [q EXCEPT !.failed = TRUE]
           u == IF undo THEN {Do("undoRow")} ELSE {}
           D == (C \ {c}) \cup u
<1>1. /\ f.op = q.op /\ f.ids = q.ids /\ f.stage = q.stage /\ f.new = q.new /\ f.failed
      /\ \A k : Allowed(f, k) <=> Allowed(q, k)
  BY DEF Request, Allowed
<1>2. \A d \in D : d \in C \/ (undo /\ d = Do("undoRow"))
  OBVIOUS
<1>3. undo => \A d \in C : d.do # "insertRow"
  BY DEF Fits, Precedes
<1>4. Do("undoRow").do = "undoRow" /\ Do("undoRow").arg = {}
  BY DEF Do
<1> HIDE DEF f, D
<1>5. \A d \in D : Allowed(f, d.do)
  BY <1>1, <1>2, <1>4 DEF Fits, Allowed
<1>6. \A d, e \in D : ~Precedes(d.do, e.do)
  BY <1>2, <1>3, <1>4 DEF Fits, Precedes
<1>7. \A d, e \in D : d.do = e.do /\ d.do \in Batch => d = e
  BY <1>2, <1>4 DEF Fits, Batch
<1>8. \A d \in D : d.do = "claim" => f.ids # Keep /\ \E i \in f.ids : d.arg = {i}
  BY <1>1, <1>2, <1>4 DEF Fits
<1>9. /\ \A d \in D : d.do \in Plain => d.arg = {}
      /\ \A d \in D : d.do \in {"dropIds", "dropAllIds"} => d.arg \subseteq Identities
      /\ \A d \in D : d.do \in {"putAccess", "dropAccess"} => d.arg \subseteq Entries
      /\ \A d \in D : d.do \in {"checkIssuer", "deleteIssuer"} => \E i \in Cli : d.arg = {i}
      /\ \A d \in D : d.do = "addIssuer" => d.arg = {f.new}
      /\ \A d \in D : d.do = "undoRow" => f.failed
  BY <1>1, <1>2, <1>4 DEF Fits
<1>10. Fits(f, D)
  BY <1>5, <1>6, <1>7, <1>8, <1>9 DEF Fits
<1> QED
  BY <1>10 DEF f, D

\* A call that is refused leaves the request where it may stand.
LEMMA RefuseMoves ==
    ASSUME TypeOK, Control, Names, NEW r \in Requests, NEW c \in calls[r], Refuse(r, c)
    PROVE  /\ \E C \in SUBSET Call : Becomes(r, [req[r] EXCEPT !.failed = TRUE], C)
           /\ broken' = broken \/ broken' = broken \cup {req[r].agent}
           /\ broken' \subseteq Agents
           /\ UNCHANGED <<known, started, ghosts>>
<1> DEFINE q == req[r]
           undo == c.do \in {"claim", "putAccess"} /\ q.op = "add" /\ ~q.failed
           f == [q EXCEPT !.failed = TRUE]
           C == (calls[r] \ {c}) \cup IF undo THEN {Do("undoRow")} ELSE {}
<1>1. q \in Request /\ calls[r] \subseteq Call /\ Placed(q) /\ Fits(q, calls[r])
  BY DEF TypeOK, Control
<1>2. f \in Request /\ C \in SUBSET Call
  BY <1>1, Failed, Made DEF Plain
<1>3. Fits(f, C)
  BY <1>1, FitsFailed
<1>4. q.op # "none"
  BY <1>1 DEF Fits, Allowed
<1>5. /\ f.op = q.op /\ f.stage = q.stage /\ f.ids = q.ids /\ f.acc = q.acc /\ f.new = q.new
      /\ f.failed
  BY <1>1, Failed
<1>6. Placed(f) /\ Waits(f, C)
  BY <1>1, <1>4, <1>5 DEF Placed, Waits
<1>7. /\ req' = [req EXCEPT ![r] = f] /\ calls' = [calls EXCEPT ![r] = C]
  BY DEF Refuse, TypeOK
<1>8. Becomes(r, f, C)
  BY <1>2, <1>3, <1>6, <1>7 DEF Becomes
<1>9. /\ broken' = broken \/ broken' = broken \cup {req[r].agent}
      /\ broken' \subseteq Agents
  BY <1>4 DEF Refuse, TypeOK, Names
<1> QED
  BY <1>2, <1>8, <1>9 DEF Refuse, others

\* The types of all but the requests.
Typed ==
    /\ row \subseteq Agents /\ known \subseteq Agents
    /\ owner \in [Identities -> Agents \cup {None}]
    /\ access \in [Agents -> SUBSET Entries]
    /\ issuers \subseteq Cli
    /\ token \in [Agents -> 0..MaxTokens]
    /\ tokens \in [Tokens -> [agent : Agents \cup {None}, cli : Cli \cup {None}]]
    /\ started \in 0..MaxRequests /\ faults \in 0..MaxFaults
    /\ said \in [Agents -> [row : BOOLEAN, ids : SUBSET Identities, acc : SUBSET Entries]]
    /\ broken \subseteq Agents /\ raced \in BOOLEAN
    /\ passed \in [Tokens -> Nat]

LEMMA Types == TypeOK <=> Typed /\ req \in [Requests -> Request] /\ calls \in [Requests -> SUBSET Call]
BY DEF TypeOK, Typed

\* The step of one request keeps every request where it may stand.
LEMMA MovesKeep ==
    ASSUME TypeOK, Control, NEW r \in Requests, Moves(r), Typed'
    PROVE  TypeOK' /\ Control'
<1> PICK q \in Request, C \in SUBSET Call : Becomes(r, q, C)
  BY DEF Moves
<1>1. /\ req' = [req EXCEPT ![r] = q] /\ calls' = [calls EXCEPT ![r] = C]
      /\ Placed(q) /\ Fits(q, C) /\ Waits(q, C)
  BY DEF Becomes
<1>2. req' \in [Requests -> Request] /\ calls' \in [Requests -> SUBSET Call]
  BY <1>1 DEF TypeOK
<1>3. TypeOK'
  BY <1>2, Types DEF TypeOK, Typed
<1>4. ASSUME NEW s \in Requests PROVE Placed(req'[s]) /\ Fits(req'[s], calls'[s]) /\ Waits(req'[s], calls'[s])
  <2>1. CASE s = r
    BY <1>1, <2>1 DEF TypeOK
  <2>2. CASE s # r
    <3>1. req'[s] = req[s] /\ calls'[s] = calls[s]
      BY <1>1, <2>2 DEF TypeOK
    <3> QED
      BY <3>1 DEF Control
  <2> QED
    BY <2>1, <2>2
<1> QED
  BY <1>3, <1>4 DEF Control

\* A request arrives.
LEMMA BeginMoves ==
    ASSUME TypeOK, NEW r \in Requests, NEW q \in Request, NEW C \in SUBSET Call, Begin(r, q, C),
           Placed(q), Fits(q, C), Waits(q, C), known' \subseteq Agents
    PROVE  Moves(r) /\ Typed'
<1>1. Becomes(r, q, C)
  BY DEF Begin, Becomes
<1>2. started' \in 0..MaxRequests
  BY AgentAssumption DEF Begin, TypeOK
<1>3. raced' \in BOOLEAN
  BY DEF Begin, TypeOK
<1>4. UNCHANGED <<row, owner, access, issuers, token, tokens, passed, faults, said, broken>>
  BY DEF Begin, tables, initTable
<1> QED
  BY <1>1, <1>2, <1>3, <1>4 DEF Moves, Typed, TypeOK

\* The calls with which a request starts.
LEMMA FirstFit ==
    /\ \A q \in Request : q.op = "add" => Fits(q, {Do("insertRow")})
    /\ \A q \in Request : q.op = "update" \/ (q.op = "resolve" /\ q.stage = "write") => Fits(q, UpdateCalls)
    /\ \A q \in Request : q.op = "delete" => Fits(q, {Do("deleteRow"), Do("listIds")})
    /\ \A q \in Request : q.op = "init" => Fits(q, {Do("checkRow")})
    /\ \A q \in Request : q.op = "resolve" /\ q.stage = "token" => Fits(q, {Do("readToken")})
    /\ \A q \in Request : q.op = "resolve" /\ q.stage = "get" =>
          Fits(q, {Do("getRow"), Do("getIds"), Do("getAccess")})
    /\ \A q \in Request : q.op = "resolve" /\ q.stage = "issuer" => Fits(q, {With("addIssuer", {q.new})})
<1>1. \A q, C : (\A c \in C : Allowed(q, c.do) /\ \E k \in Plain : c = Do(k) /\ \A d \in C : ~Precedes(k, d.do))
                 /\ (\A c \in C : c.do # "undoRow") => Fits(q, C)
  BY Made DEF Fits, Plain, Batch
<1>2. \A q \in Request : q.op = "add" => Fits(q, {Do("insertRow")})
  <2>1. Do("insertRow").do = "insertRow" /\ "insertRow" \in Plain
    BY Made DEF Plain
  <2> QED
    BY <1>1, <2>1 DEF Allowed, Precedes
<1>3. \A q \in Request : q.op = "update" \/ (q.op = "resolve" /\ q.stage = "write") => Fits(q, UpdateCalls)
  <2>1. /\ Do("updateRow").do = "updateRow" /\ Do("readIds").do = "readIds"
        /\ Do("readAccess").do = "readAccess" /\ {"updateRow", "readIds", "readAccess"} \subseteq Plain
    BY Made DEF Plain
  <2> QED
    BY <1>1, <2>1 DEF Allowed, Precedes, UpdateCalls
<1>4. \A q \in Request : q.op = "delete" => Fits(q, {Do("deleteRow"), Do("listIds")})
  <2>1. Do("deleteRow").do = "deleteRow" /\ Do("listIds").do = "listIds" /\ {"deleteRow", "listIds"} \subseteq Plain
    BY Made DEF Plain
  <2> QED
    BY <1>1, <2>1 DEF Allowed, Precedes
<1>5. \A q \in Request : q.op = "init" => Fits(q, {Do("checkRow")})
  <2>1. Do("checkRow").do = "checkRow" /\ "checkRow" \in Plain
    BY Made DEF Plain
  <2> QED
    BY <1>1, <2>1 DEF Allowed, Precedes
<1>6. \A q \in Request : q.op = "resolve" /\ q.stage = "token" => Fits(q, {Do("readToken")})
  <2>1. Do("readToken").do = "readToken" /\ "readToken" \in Plain
    BY Made DEF Plain
  <2> QED
    BY <1>1, <2>1 DEF Allowed, Precedes
<1>7. \A q \in Request : q.op = "resolve" /\ q.stage = "get" =>
          Fits(q, {Do("getRow"), Do("getIds"), Do("getAccess")})
  <2>1. /\ Do("getRow").do = "getRow" /\ Do("getIds").do = "getIds"
        /\ Do("getAccess").do = "getAccess" /\ {"getRow", "getIds", "getAccess"} \subseteq Plain
    BY Made DEF Plain
  <2> QED
    BY <1>1, <2>1 DEF Allowed, Precedes
<1>8. \A q \in Request : q.op = "resolve" /\ q.stage = "issuer" => Fits(q, {With("addIssuer", {q.new})})
  BY Made DEF Fits, Plain, Batch, Allowed, Precedes
<1> QED
  BY <1>2, <1>3, <1>4, <1>5, <1>6, <1>7, <1>8

\* A request about agent a, as it arrives.
LEMMA IdleRequest == Idle \in Request
BY AgentAssumption DEF Idle, Request

\* What a request asks when it arrives.
Arrives(r, q) ==
    /\ q \in Request /\ q.agent \in Agents /\ q.failed = FALSE
    /\ \/ /\ q.op = "add" /\ q.stage = "write" /\ q.tok = 0 /\ q.new = None /\ q.agent \notin known
          /\ q.ids \in SUBSET Known /\ q.acc \in SUBSET Entries /\ Begin(r, q, {Do("insertRow")})
          /\ known' = known \cup {q.agent}
       \/ /\ q.op = "update" /\ q.stage = "write" /\ q.tok = 0 /\ q.new = None /\ q.agent \in known
          /\ q.ids \in (SUBSET Known) \cup {Keep} /\ Begin(r, q, UpdateCalls) /\ known' = known
       \/ /\ q.op = "delete" /\ q.stage = "write" /\ q.tok = 0 /\ q.new = None /\ q.agent \in known
          /\ q.ids = Keep /\ Begin(r, q, {Do("deleteRow"), Do("listIds")}) /\ known' = known
       \/ /\ q.op = "init" /\ q.stage = "token" /\ q.tok = 0 /\ q.new = None /\ q.agent \in known
          /\ q.ids = Keep /\ Begin(r, q, {Do("checkRow")}) /\ known' = known
       \/ /\ q.op = "resolve" /\ q.stage = "token" /\ q.tok \in Issued /\ q.new \in Identities
          /\ q.agent = tokens[q.tok].agent /\ (q.new \in Cli => q.new = tokens[q.tok].cli)
          /\ q.ids = Keep /\ Begin(r, q, {Do("readToken")}) /\ known' = known

LEMMA ArrivesIs ==
    ASSUME TypeOK, NEW r \in Requests,
           AddAgent(r) \/ UpdateAgent(r) \/ DeleteAgent(r) \/ InitAgent(r) \/ Resolve(r)
    PROVE  \E q \in Request : Arrives(r, q)
<1>0. known \subseteq Agents /\ Known \subseteq Identities
  BY AgentAssumption DEF TypeOK, Known
<1>1. CASE AddAgent(r)
  <2> PICK a \in Agents \ known, ids \in SUBSET Known, acc \in SUBSET Entries :
           /\ Begin(r, [Idle EXCEPT !.op = "add", !.agent = a, !.ids = ids, !.acc = acc,
                                    !.stage = "write"],
                    {Do("insertRow")})
           /\ known' = known \cup {a}
    BY <1>1 DEF AddAgent
  <2> DEFINE q == [Idle EXCEPT !.op = "add", !.agent = a, !.ids = ids, !.acc = acc, !.stage = "write"]
  <2>0. /\ a \in Agents
        /\ ids \in (SUBSET Identities) \cup {Keep} /\ acc \in (SUBSET Entries) \cup {Keep}
    BY <1>0
  <2>1. /\ q.op = "add" /\ q.agent = a /\ q.ids = ids /\ q.acc = acc
        /\ q.tok = 0 /\ q.new = None /\ q.stage = "write" /\ q.failed = FALSE
    BY DEF Idle
  <2>3. q \in Request
    BY <2>0, IdleRequest DEF Request
  <2>2. Begin(r, q, {Do("insertRow")})
    OBVIOUS
  <2> HIDE DEF q
  <2> QED
    BY <2>1, <2>2, <2>3 DEF Arrives
<1>2. CASE UpdateAgent(r)
  <2> PICK a \in known, ids \in (SUBSET Known) \cup {Keep}, acc \in (SUBSET Entries) \cup {Keep} :
           /\ Begin(r, [Idle EXCEPT !.op = "update", !.agent = a, !.ids = ids, !.acc = acc,
                                    !.stage = "write"],
                    UpdateCalls)
           /\ UNCHANGED known
    BY <1>2 DEF UpdateAgent
  <2> DEFINE q == [Idle EXCEPT !.op = "update", !.agent = a, !.ids = ids, !.acc = acc, !.stage = "write"]
  <2>0. /\ a \in Agents
        /\ ids \in (SUBSET Identities) \cup {Keep} /\ acc \in (SUBSET Entries) \cup {Keep}
    BY <1>0
  <2>1. /\ q.op = "update" /\ q.agent = a /\ q.ids = ids /\ q.acc = acc
        /\ q.tok = 0 /\ q.new = None /\ q.stage = "write" /\ q.failed = FALSE
    BY DEF Idle
  <2>3. q \in Request
    BY <2>0, IdleRequest DEF Request
  <2>2. Begin(r, q, UpdateCalls)
    OBVIOUS
  <2> HIDE DEF q
  <2> QED
    BY <1>0, <2>1, <2>2, <2>3 DEF Arrives
<1>3. CASE DeleteAgent(r)
  <2> PICK a \in known :
           /\ Begin(r, [Idle EXCEPT !.op = "delete", !.agent = a, !.stage = "write"],
                    {Do("deleteRow"), Do("listIds")})
           /\ UNCHANGED known
    BY <1>3 DEF DeleteAgent
  <2> DEFINE q == [Idle EXCEPT !.op = "delete", !.agent = a, !.stage = "write"]
  <2>1. /\ q.op = "delete" /\ q.agent = a /\ q.ids = Keep /\ q.acc = Keep
        /\ q.tok = 0 /\ q.new = None /\ q.stage = "write" /\ q.failed = FALSE
    BY DEF Idle
  <2>3. q \in Request
    BY <1>0, IdleRequest DEF Request
  <2>2. Begin(r, q, {Do("deleteRow"), Do("listIds")})
    OBVIOUS
  <2> HIDE DEF q
  <2> QED
    BY <1>0, <2>1, <2>2, <2>3 DEF Arrives
<1>4. CASE InitAgent(r)
  <2> PICK a \in known :
           /\ Begin(r, [Idle EXCEPT !.op = "init", !.agent = a, !.stage = "token"], {Do("checkRow")})
           /\ UNCHANGED known
    BY <1>4 DEF InitAgent
  <2> DEFINE q == [Idle EXCEPT !.op = "init", !.agent = a, !.stage = "token"]
  <2>1. /\ q.op = "init" /\ q.agent = a /\ q.ids = Keep /\ q.acc = Keep
        /\ q.tok = 0 /\ q.new = None /\ q.stage = "token" /\ q.failed = FALSE
    BY DEF Idle
  <2>3. q \in Request
    BY <1>0, IdleRequest DEF Request
  <2>2. Begin(r, q, {Do("checkRow")})
    OBVIOUS
  <2> HIDE DEF q
  <2> QED
    BY <1>0, <2>1, <2>2, <2>3 DEF Arrives
<1>5. CASE Resolve(r)
  <2> PICK n \in Issued, i \in Identities :
        /\ IF tokens[n].cli = None THEN i \notin Cli ELSE i = tokens[n].cli
        /\ Begin(r, [Idle EXCEPT !.op = "resolve", !.agent = tokens[n].agent, !.tok = n,
                                 !.new = i, !.stage = "token"],
                 {Do("readToken")})
        /\ UNCHANGED known
    BY <1>5 DEF Resolve
  <2> DEFINE q == [Idle EXCEPT !.op = "resolve", !.agent = tokens[n].agent, !.tok = n, !.new = i,
                              !.stage = "token"]
  <2>5. n \in Tokens /\ tokens[n].agent \in Agents
    BY DEF Issued, TypeOK
  <2>0. n \in 0..MaxTokens /\ tokens[n].agent \in Agents
    BY <2>5, AgentAssumption DEF Tokens
  <2>1. /\ q.op = "resolve" /\ q.agent = tokens[n].agent /\ q.ids = Keep /\ q.acc = Keep
        /\ q.tok = n /\ q.new = i /\ q.stage = "token" /\ q.failed = FALSE
    BY DEF Idle
  <2>3. q \in Request
    BY <2>0, IdleRequest DEF Request
  <2>2. Begin(r, q, {Do("readToken")})
    OBVIOUS
  <2>4. i \in Cli => i = tokens[n].cli
    OBVIOUS
  <2> HIDE DEF q
  <2> QED
    BY <2>0, <2>1, <2>2, <2>3, <2>4 DEF Arrives
<1> QED
  BY <1>1, <1>2, <1>3, <1>4, <1>5

LEMMA ArrivesMoves ==
    ASSUME TypeOK, NEW r \in Requests, NEW q \in Request, Arrives(r, q)
    PROVE  Moves(r) /\ Typed'
<1>1. /\ q.op # "none" /\ ~(q.stage \in {"get", "issuer"})
      /\ q.op = "resolve" => q.new # None
    BY AgentAssumption DEF Arrives
<1>2. Placed(q)
  <2>1. q.op = "add" => q.ids # Keep /\ q.acc # Keep
    BY AgentAssumption DEF Arrives, Known, TypeOK
  <2> QED
    BY <1>1, <2>1 DEF Arrives, Placed
<1>3. known' \subseteq Agents
  BY DEF Arrives, TypeOK
<1>4. \A k \in Plain : Do(k) \in Call
  BY Made
<1>5. CASE q.op = "add"
  <2>1. Begin(r, q, {Do("insertRow")}) /\ {Do("insertRow")} \in SUBSET Call
    BY <1>4, <1>5 DEF Arrives, Plain
  <2>2. Fits(q, {Do("insertRow")}) /\ Waits(q, {Do("insertRow")})
    BY <1>5, FirstFit DEF Waits
  <2> QED
    BY <1>2, <1>3, <2>1, <2>2, BeginMoves
<1>6. CASE q.op = "update"
  <2>1. Begin(r, q, UpdateCalls) /\ UpdateCalls \in SUBSET Call
    BY <1>4, <1>6 DEF Arrives, Plain, UpdateCalls
  <2>2. Fits(q, UpdateCalls) /\ Waits(q, UpdateCalls)
    BY <1>6, FirstFit DEF Waits
  <2> QED
    BY <1>2, <1>3, <2>1, <2>2, BeginMoves
<1>7. CASE q.op = "delete"
  <2>1. Begin(r, q, {Do("deleteRow"), Do("listIds")}) /\ {Do("deleteRow"), Do("listIds")} \in SUBSET Call
    BY <1>4, <1>7 DEF Arrives, Plain
  <2>2. Fits(q, {Do("deleteRow"), Do("listIds")}) /\ Waits(q, {Do("deleteRow"), Do("listIds")})
    BY <1>7, FirstFit DEF Waits
  <2> QED
    BY <1>2, <1>3, <2>1, <2>2, BeginMoves
<1>8. CASE q.op = "init"
  <2>1. Begin(r, q, {Do("checkRow")}) /\ {Do("checkRow")} \in SUBSET Call
    BY <1>4, <1>8 DEF Arrives, Plain
  <2>2. Fits(q, {Do("checkRow")}) /\ Waits(q, {Do("checkRow")})
    BY <1>8, FirstFit DEF Waits
  <2> QED
    BY <1>2, <1>3, <2>1, <2>2, BeginMoves
<1>9. CASE q.op = "resolve"
  <2>1. Begin(r, q, {Do("readToken")}) /\ {Do("readToken")} \in SUBSET Call
    BY <1>4, <1>9 DEF Arrives, Plain
  <2>2. Fits(q, {Do("readToken")}) /\ Waits(q, {Do("readToken")})
    BY <1>9, FirstFit DEF Waits, Arrives
  <2> QED
    BY <1>2, <1>3, <2>1, <2>2, BeginMoves
<1> QED
  BY <1>1, <1>5, <1>6, <1>7, <1>8, <1>9 DEF Arrives

-----------------------------------------------------------------------------
(* Calls are answered.                                                     *)

\* The calls in more may follow call c of a request that has the calls C.
Follows(q, C, c, more) ==
    /\ more \in SUBSET Call /\ Fits(q, more)
    /\ \A d \in C \ {c}, m \in more :
          /\ ~Precedes(d.do, m.do) /\ ~Precedes(m.do, d.do)
          /\ d.do = m.do /\ d.do \in Batch => d = m
    /\ q.op = "resolve" /\ q.stage \in {"token", "issuer"} => more # {}

LEMMA FollowFits ==
    ASSUME NEW q, NEW C, Fits(q, C), NEW c \in C, NEW more, Follows(q, C, c, more)
    PROVE  Fits(q, (C \ {c}) \cup more) /\ Waits(q, (C \ {c}) \cup more)
<1> DEFINE D == (C \ {c}) \cup more
<1>1. \A d \in D : (d \in C \ {c} /\ d \in C) \/ d \in more
  OBVIOUS
<1>2. Fits(q, more)
  BY DEF Follows
<1> HIDE DEF D
<1>3. /\ \A d \in D : Allowed(q, d.do)
      /\ \A d \in D : d.do \in Plain => d.arg = {}
      /\ \A d \in D : d.do = "claim" => q.ids # Keep /\ \E i \in q.ids : d.arg = {i}
      /\ \A d \in D : d.do \in {"dropIds", "dropAllIds"} => d.arg \subseteq Identities
      /\ \A d \in D : d.do \in {"putAccess", "dropAccess"} => d.arg \subseteq Entries
      /\ \A d \in D : d.do \in {"checkIssuer", "deleteIssuer"} => \E i \in Cli : d.arg = {i}
      /\ \A d \in D : d.do = "addIssuer" => d.arg = {q.new}
      /\ \A d \in D : d.do = "undoRow" => q.failed
  BY <1>1, <1>2 DEF Fits
<1>4. \A d, e \in D : d.do = e.do /\ d.do \in Batch => d = e
  BY <1>1, <1>2 DEF Fits, Follows
<1>5. \A d, e \in D : ~Precedes(d.do, e.do)
  BY <1>1, <1>2 DEF Fits, Follows
<1>6. Fits(q, D)
  BY <1>3, <1>4, <1>5 DEF Fits
<1>7. Waits(q, D)
  BY DEF Waits, Follows, D
<1> QED
  BY <1>6, <1>7 DEF D

LEMMA SucceedMoves ==
    ASSUME TypeOK, Control, NEW r \in Requests, NEW c \in calls[r], NEW more,
           Succeed(r, c, more), Follows(req[r], calls[r], c, more), UNCHANGED req
    PROVE  /\ Becomes(r, req[r], (calls[r] \ {c}) \cup more) /\ Moves(r)
           /\ UNCHANGED <<known, started, faults, said, broken, raced>>
<1> DEFINE q == req[r]
           C == (calls[r] \ {c}) \cup more
<1>1. q \in Request /\ calls[r] \subseteq Call /\ Placed(q) /\ Fits(q, calls[r])
  BY DEF TypeOK, Control
<1>2. C \in SUBSET Call
  BY <1>1 DEF Follows
<1>3. Fits(q, C) /\ Waits(q, C)
  BY <1>1, FollowFits
<1>4. req' = [req EXCEPT ![r] = q] /\ calls' = [calls EXCEPT ![r] = C]
  BY DEF Succeed, TypeOK
<1>5. Becomes(r, q, C)
  BY <1>1, <1>2, <1>3, <1>4 DEF Becomes
<1>6. Moves(r)
  BY <1>1, <1>2, <1>5 DEF Moves
<1>7. UNCHANGED <<known, started, faults, said, broken, raced>>
  BY DEF Succeed, others, ghosts
<1> QED
  BY <1>5, <1>6, <1>7

\* Nothing may follow any call but the reading of a token.
LEMMA NothingFollows ==
    ASSUME TypeOK, Control, NEW r \in Requests, NEW c \in calls[r],
           c.do \notin {"readToken", "deleteToken", "addIssuer"}
    PROVE  Follows(req[r], calls[r], c, {})
<1>1. Fits(req[r], {})
  BY DEF Fits
<1>2. ~(req[r].op = "resolve" /\ req[r].stage \in {"token", "issuer"})
  BY DEF Control, Fits, Allowed
<1> QED
  BY <1>1, <1>2 DEF Follows

LEMMA RefuseTyped ==
    ASSUME TypeOK, Control, Names, NEW r \in Requests, NEW c \in calls[r], Refuse(r, c)
    PROVE  /\ Moves(r) /\ broken' \subseteq Agents
           /\ UNCHANGED <<known, started, said, raced>>
<1>1. /\ \E C \in SUBSET Call : Becomes(r, [req[r] EXCEPT !.failed = TRUE], C)
      /\ broken' \subseteq Agents /\ UNCHANGED <<known, started, said, raced>>
  BY RefuseMoves DEF ghosts
<1>2. [req[r] EXCEPT !.failed = TRUE] \in Request
  BY Failed DEF TypeOK
<1> QED
  BY <1>1, <1>2 DEF Moves

LEMMA FaultMoves ==
    ASSUME TypeOK, Control, Names, NEW r \in Requests, Fault(r)
    PROVE  Moves(r) /\ Typed'
<1> PICK c \in calls[r] :
        /\ faults < MaxFaults /\ faults' = faults + 1 /\ Refuse(r, c) /\ UNCHANGED <<tables, initTable>>
  BY DEF Fault
<1>1. /\ Moves(r) /\ broken' \subseteq Agents /\ UNCHANGED <<known, started, said, raced>>
  BY RefuseTyped
<1>2. faults' \in 0..MaxFaults
  BY AgentAssumption DEF TypeOK
<1> QED
  BY <1>1, <1>2 DEF Typed, TypeOK, tables, initTable

LEMMA OnRowMoves ==
    ASSUME TypeOK, Control, Names, NEW r \in Requests, NEW what, NEW exists \in BOOLEAN, NEW STATE new, NEW STATE more,
           OnRow(r, what, exists, new, more),
           new \subseteq Agents,
           \A c \in calls[r] : c.do = what => Follows(req[r], calls[r], c, more)
    PROVE  Moves(r) /\ Typed'
<1> PICK c \in calls[r] :
        /\ c.do = what
        /\ IF exists => req[r].agent \in row
           THEN row' = new /\ Succeed(r, c, more) /\ UNCHANGED req
           ELSE Refuse(r, c) /\ UNCHANGED <<row, faults>>
        /\ UNCHANGED <<owner, access, issuers, initTable>>
  BY DEF OnRow
<1>1. CASE exists => req[r].agent \in row
  <2>1. Moves(r) /\ UNCHANGED <<known, started, faults, said, broken, raced>>
    BY <1>1, SucceedMoves
  <2> QED
    BY <1>1, <2>1 DEF Typed, TypeOK, initTable
<1>2. CASE ~(exists => req[r].agent \in row)
  <2>1. /\ Moves(r) /\ broken' \subseteq Agents /\ UNCHANGED <<known, started, said, raced>>
    BY <1>2, RefuseTyped
  <2> QED
    BY <1>2, <2>1 DEF Typed, TypeOK, initTable
<1> QED
  BY <1>1, <1>2

\* A request has one call at most of each plain kind, and one batch of each.
LEMMA OneOfAKind ==
    ASSUME TypeOK, Control, NEW r \in Requests, NEW c \in calls[r], NEW d \in calls[r],
           c.do = d.do, c.do \in Plain \cup Batch
    PROVE  c = d
<1>1. c \in Call /\ d \in Call
  BY DEF TypeOK
<1>2. c.do \in Plain => c.arg = {} /\ d.arg = {}
  BY DEF Control, Fits
<1>3. c.do \in Batch => c = d
  BY DEF Control, Fits
<1> QED
  BY <1>1, <1>2, <1>3 DEF Call

\* What follows the answer that the row has been inserted.
AfterInsert(q) ==
    {With("claim", {i}) : i \in q.ids} \cup (IF q.acc = {} THEN {} ELSE {With("putAccess", q.acc)})

LEMMA InsertFollows ==
    ASSUME TypeOK, Control, NEW r \in Requests, NEW c \in calls[r], c.do = "insertRow"
    PROVE  /\ req[r].op = "add" /\ req[r].ids \in SUBSET Identities /\ req[r].acc \in SUBSET Entries
           /\ calls[r] = {c}
           /\ Follows(req[r], calls[r], c, AfterInsert(req[r]))
<1> DEFINE q == req[r]
           more == AfterInsert(q)
<1>1. q \in Request /\ Placed(q) /\ Fits(q, calls[r])
  BY DEF TypeOK, Control
<1>2. q.op = "add"
  BY <1>1 DEF Fits, Allowed
<1>3. q.ids \in SUBSET Identities /\ q.acc \in SUBSET Entries
  BY <1>1, <1>2 DEF Placed, Request
<1>4. calls[r] = {c}
  <2> SUFFICES ASSUME NEW d \in calls[r] PROVE d = c
    OBVIOUS
  <2>1. d.do = "insertRow"
    BY <1>1, <1>2 DEF Fits, Allowed, Precedes
  <2> QED
    BY <2>1, OneOfAKind DEF Plain
<1>5. \A m \in more : \/ \E i \in q.ids : m = With("claim", {i})
                      \/ m = With("putAccess", q.acc)
  BY DEF AfterInsert
<1>6. /\ \A i \in q.ids : With("claim", {i}) \in Call
      /\ With("putAccess", q.acc) \in Call
  BY <1>3, Made DEF Batch
<1> HIDE DEF more
<1>7. \A m \in more : /\ m \in Call /\ m.do \in {"claim", "putAccess"}
                      /\ m.do = "claim" => \E i \in q.ids : m.arg = {i}
                      /\ m.do = "putAccess" => m = With("putAccess", q.acc) /\ m.arg = q.acc
  <2> TAKE m \in more
  <2>1. CASE \E i \in q.ids : m = With("claim", {i})
    BY <1>6, <2>1, Made
  <2>2. CASE m = With("putAccess", q.acc)
    BY <1>6, <2>2, Made
  <2> QED
    BY <1>5, <2>1, <2>2
<1>8. Fits(q, more)
  BY <1>1, <1>2, <1>3, <1>7 DEF Fits, Plain, Batch, Allowed, Precedes, Placed
<1>9. Follows(q, calls[r], c, more)
  BY <1>2, <1>4, <1>7, <1>8 DEF Follows
<1> QED
  BY <1>2, <1>3, <1>4, <1>9 DEF more

LEMMA RowMoves ==
    ASSUME TypeOK, Control, Names, NEW r \in Requests,
           \/ InsertRow(r) \/ UndoRow(r) \/ UpdateRow(r) \/ DeleteRow(r) \/ CheckRow(r) \/ GetRow(r)
    PROVE  Moves(r) /\ Typed'
<1>0. /\ row \subseteq Agents /\ row \ {req[r].agent} \subseteq Agents
      /\ calls[r] # {} => row \cup {req[r].agent} \subseteq Agents
  BY DEF TypeOK, Control, Fits, Allowed, Names
<1>1. CASE InsertRow(r)
  <2>1. calls[r] # {}
    BY <1>1 DEF InsertRow, OnRow
  <2>2. OnRow(r, "insertRow", FALSE, row \cup {req[r].agent}, AfterInsert(req[r]))
    BY <1>1 DEF InsertRow, AfterInsert
  <2>3. \A c \in calls[r] : c.do = "insertRow" => Follows(req[r], calls[r], c, AfterInsert(req[r]))
    BY InsertFollows
  <2>4. row \cup {req[r].agent} \subseteq Agents
    BY <1>0, <2>1
  <2> QED
    BY <2>2, <2>3, <2>4, OnRowMoves
<1>2. CASE UndoRow(r)
  <2>1. OnRow(r, "undoRow", TRUE, row \ {req[r].agent}, {})
    BY <1>2 DEF UndoRow
  <2>2. \A c \in calls[r] : c.do = "undoRow" => Follows(req[r], calls[r], c, {})
    BY NothingFollows
  <2> QED
    BY <1>0, <2>1, <2>2, OnRowMoves
<1>3. CASE UpdateRow(r)
  <2>1. OnRow(r, "updateRow", TRUE, row, {})
    BY <1>3 DEF UpdateRow
  <2>2. \A c \in calls[r] : c.do = "updateRow" => Follows(req[r], calls[r], c, {})
    BY NothingFollows
  <2> QED
    BY <1>0, <2>1, <2>2, OnRowMoves
<1>4. CASE DeleteRow(r)
  <2>1. OnRow(r, "deleteRow", TRUE, row \ {req[r].agent}, {})
    BY <1>4 DEF DeleteRow
  <2>2. \A c \in calls[r] : c.do = "deleteRow" => Follows(req[r], calls[r], c, {})
    BY NothingFollows
  <2> QED
    BY <1>0, <2>1, <2>2, OnRowMoves
<1>5. CASE CheckRow(r)
  <2>1. ASSUME NEW c \in calls[r], c.do = "checkRow"
        PROVE  Follows(req[r], calls[r], c, {Do("putToken")})
    <3>1. req[r].op = "init"
      BY <2>1 DEF Control, Fits, Allowed
    <3>2. /\ Do("putToken") \in Call /\ Do("putToken").do = "putToken" /\ Do("putToken").arg = {}
      BY Made DEF Plain
    <3>3. Fits(req[r], {Do("putToken")})
      BY <3>1, <3>2 DEF Fits, Allowed, Precedes
    <3>4. \A d \in calls[r] \ {c} : ~Precedes(d.do, "putToken") /\ d.do # "putToken"
      <4> TAKE d \in calls[r] \ {c}
      <4>1. ~Precedes("checkRow", d.do) /\ Allowed(req[r], d.do)
        BY <2>1 DEF Control, Fits
      <4>2. d.do # "checkRow"
        BY <2>1, OneOfAKind DEF Plain
      <4> QED
        BY <3>1, <4>1, <4>2 DEF Allowed, Precedes
    <3> QED
      BY <3>1, <3>2, <3>3, <3>4 DEF Follows, Precedes
  <2>2. OnRow(r, "checkRow", TRUE, row, {Do("putToken")})
    BY <1>5 DEF CheckRow
  <2> QED
    BY <1>0, <2>1, <2>2, OnRowMoves
<1>6. CASE GetRow(r)
  <2>1. OnRow(r, "getRow", TRUE, row, {})
    BY <1>6 DEF GetRow
  <2>2. \A c \in calls[r] : c.do = "getRow" => Follows(req[r], calls[r], c, {})
    BY NothingFollows
  <2> QED
    BY <1>0, <2>1, <2>2, OnRowMoves
<1> QED
  BY <1>1, <1>2, <1>3, <1>4, <1>5, <1>6

\* The calls that replace identities.
LEMMA ReplaceIdsFollows ==
    ASSUME TypeOK, Control, NEW r \in Requests, NEW c \in calls[r], c.do = "readIds",
           NEW has \in SUBSET Identities
    PROVE  Follows(req[r], calls[r], c, ReplaceIds(has, req[r].ids))
<1> DEFINE q == req[r]
           more == ReplaceIds(has, q.ids)
<1>1. q \in Request /\ Placed(q) /\ Fits(q, calls[r])
  BY DEF TypeOK, Control
<1>2. q.op = "update" \/ (q.op = "resolve" /\ q.stage = "write")
  BY <1>1 DEF Fits, Allowed
<1>3. q.ids = Keep \/ (q.ids # Keep /\ q.ids \in SUBSET Identities)
  BY <1>1 DEF Request
<1>4. \A m \in more : q.ids # Keep /\ (\/ \E i \in q.ids : m = With("claim", {i})
                                       \/ m = With("dropIds", has \ q.ids))
  BY DEF ReplaceIds
<1>5. q.ids # Keep => /\ \A i \in q.ids : With("claim", {i}) \in Call
                      /\ With("dropIds", has \ q.ids) \in Call
  BY <1>3, Made DEF Batch
<1> HIDE DEF more
<1>6. \A m \in more : /\ m \in Call /\ m.do \in {"claim", "dropIds"}
                      /\ m.do = "claim" => q.ids # Keep /\ \E i \in q.ids : m.arg = {i}
                      /\ m.do = "dropIds" => m = With("dropIds", has \ q.ids) /\ m.arg \subseteq Identities
  <2> TAKE m \in more
  <2>1. CASE \E i \in q.ids : m = With("claim", {i})
    BY <1>4, <1>5, <2>1, Made
  <2>2. CASE m = With("dropIds", has \ q.ids)
    BY <1>4, <1>5, <2>2, Made
  <2> QED
    BY <1>4, <2>1, <2>2
<1>7. Fits(q, more)
  BY <1>1, <1>2, <1>6 DEF Fits, Plain, Batch, Allowed, Precedes
<1>8. \A d \in calls[r] \ {c} : d.do \notin {"readIds", "claim", "dropIds"}
  <2> TAKE d \in calls[r] \ {c}
  <2>1. ~Precedes("readIds", d.do)
    BY <1>1 DEF Fits
  <2>2. d.do # "readIds"
    BY OneOfAKind DEF Plain
  <2> QED
    BY <2>1, <2>2 DEF Precedes
<1>9. \A d \in calls[r] : d.do \in {"updateRow", "readIds", "claim", "dropIds", "readAccess", "putAccess",
                 "dropAccess"}
  BY <1>1, <1>2 DEF Fits, Allowed
<1>10. \A d \in calls[r] \ {c}, m \in more :
          ~Precedes(d.do, m.do) /\ ~Precedes(m.do, d.do) /\ d.do # m.do
  BY <1>6, <1>8, <1>9 DEF Precedes
<1>11. Follows(q, calls[r], c, more)
  BY <1>2, <1>6, <1>7, <1>10 DEF Follows
<1> QED
  BY <1>11 DEF more

\* The calls that replace permissions.
LEMMA ReplaceAccessFollows ==
    ASSUME TypeOK, Control, NEW r \in Requests, NEW c \in calls[r], c.do = "readAccess",
           NEW has \in SUBSET Entries
    PROVE  Follows(req[r], calls[r], c, ReplaceAccess(has, req[r].acc))
<1> DEFINE q == req[r]
           more == ReplaceAccess(has, q.acc)
<1>1. q \in Request /\ Placed(q) /\ Fits(q, calls[r])
  BY DEF TypeOK, Control
<1>2. q.op = "update" \/ (q.op = "resolve" /\ q.stage = "write")
  BY <1>1 DEF Fits, Allowed
<1>3. q.acc = Keep \/ (q.acc # Keep /\ q.acc \in SUBSET Entries)
  BY <1>1 DEF Request
<1>4. \A m \in more : q.acc # Keep /\ (\/ m = With("putAccess", q.acc \ has)
                                       \/ m = With("dropAccess", has \ q.acc))
  BY DEF ReplaceAccess
<1>5. q.acc # Keep => /\ With("putAccess", q.acc \ has) \in Call /\ q.acc \ has \subseteq Entries
                      /\ With("dropAccess", has \ q.acc) \in Call /\ has \ q.acc \subseteq Entries
  BY <1>3, Made DEF Batch
<1> HIDE DEF more
<1>6. \A m \in more : /\ m \in Call /\ m.do \in {"putAccess", "dropAccess"} /\ m.arg \subseteq Entries
                      /\ m.do = "putAccess" => m = With("putAccess", q.acc \ has)
                      /\ m.do = "dropAccess" => m = With("dropAccess", has \ q.acc)
  <2> TAKE m \in more
  <2>1. CASE m = With("putAccess", q.acc \ has)
    BY <1>4, <1>5, <2>1, Made
  <2>2. CASE m = With("dropAccess", has \ q.acc)
    BY <1>4, <1>5, <2>2, Made
  <2> QED
    BY <1>4, <2>1, <2>2
<1>7. Fits(q, more)
  BY <1>1, <1>2, <1>6 DEF Fits, Plain, Batch, Allowed, Precedes
<1>8. \A d \in calls[r] \ {c} : d.do \notin {"readAccess", "putAccess", "dropAccess"}
  <2> TAKE d \in calls[r] \ {c}
  <2>1. ~Precedes("readAccess", d.do)
    BY <1>1 DEF Fits
  <2>2. d.do # "readAccess"
    BY OneOfAKind DEF Plain
  <2> QED
    BY <2>1, <2>2 DEF Precedes
<1>9. \A d \in calls[r] : d.do \in {"updateRow", "readIds", "claim", "dropIds", "readAccess", "putAccess",
                 "dropAccess"}
  BY <1>1, <1>2 DEF Fits, Allowed
<1>10. \A d \in calls[r] \ {c}, m \in more :
          ~Precedes(d.do, m.do) /\ ~Precedes(m.do, d.do) /\ d.do # m.do
  BY <1>6, <1>8, <1>9 DEF Precedes
<1>11. Follows(q, calls[r], c, more)
  BY <1>2, <1>6, <1>7, <1>10 DEF Follows
<1> QED
  BY <1>11 DEF more

\* What follows once the identities of a deleted agent are gone.
LEMMA AfterDropFollows ==
    ASSUME TypeOK, Control, NEW r \in Requests, NEW c \in calls[r], c.do \in {"listIds", "dropAllIds"},
           NEW listed \in SUBSET Identities
    PROVE  Follows(req[r], calls[r], c, AfterDrop(req[r].agent, listed))
<1> DEFINE q == req[r]
           more == AfterDrop(q.agent, listed)
<1>1. q \in Request /\ Placed(q) /\ Fits(q, calls[r])
  BY DEF TypeOK, Control
<1>2. q.op = "delete"
  BY <1>1 DEF Fits, Allowed
<1>3. \A m \in more : m = Do("listAccess") \/ \E i \in Cli : m = With("checkIssuer", {i})
  BY DEF AfterDrop
<1>4. /\ Do("listAccess") \in Call /\ Do("listAccess").do = "listAccess" /\ Do("listAccess").arg = {}
      /\ \A i \in Cli : With("checkIssuer", {i}) \in Call
  BY Made, AgentAssumption DEF Plain
<1> HIDE DEF more
<1>5. \A m \in more : /\ m \in Call /\ m.do \in {"listAccess", "checkIssuer"}
                      /\ m.do = "listAccess" => m.arg = {}
                      /\ m.do = "checkIssuer" => \E i \in Cli : m.arg = {i}
  <2> TAKE m \in more
  <2>1. CASE m = Do("listAccess")
    BY <1>4, <2>1
  <2>2. CASE \E i \in Cli : m = With("checkIssuer", {i})
    BY <1>4, <2>2, Made
  <2> QED
    BY <1>3, <2>1, <2>2
<1>6. Fits(q, more)
  BY <1>1, <1>2, <1>5 DEF Fits, Plain, Batch, Allowed, Precedes
<1>7. \A d \in calls[r] \ {c} : d.do = "deleteRow"
  <2> TAKE d \in calls[r] \ {c}
  <2>1. ~Precedes(c.do, d.do) /\ ~Precedes(d.do, c.do) /\ Allowed(q, d.do)
    BY <1>1 DEF Fits
  <2>2. d.do # c.do
    BY OneOfAKind DEF Plain, Batch
  <2> QED
    BY <1>2, <2>1, <2>2 DEF Precedes, Allowed
<1>8. \A d \in calls[r] \ {c}, m \in more :
          ~Precedes(d.do, m.do) /\ ~Precedes(m.do, d.do) /\ d.do # m.do
  BY <1>5, <1>7 DEF Precedes
<1>9. Follows(q, calls[r], c, more)
  BY <1>2, <1>5, <1>6, <1>8 DEF Follows
<1> QED
  BY <1>9 DEF more

\* A batch that goes on, and those that follow a reading.
LEMMA BatchFollows ==
    ASSUME TypeOK, Control, NEW r \in Requests, NEW c \in calls[r], NEW k, NEW x,
           \/ c.do \in {"dropIds", "dropAllIds", "putAccess", "dropAccess"} /\ k = c.do /\ x \subseteq c.arg
           \/ c.do = "listIds" /\ k = "dropAllIds" /\ x \subseteq Identities
           \/ c.do = "listAccess" /\ k = "dropAccess" /\ x \subseteq Entries
           \/ c.do = "checkIssuer" /\ k = "deleteIssuer" /\ x = c.arg
           \/ c.do = "readToken" /\ k = "deleteToken" /\ x \subseteq Tokens
    PROVE  Follows(req[r], calls[r], c, {With(k, x)})
<1> DEFINE q == req[r]
           m == With(k, x)
<1>1. q \in Request /\ Placed(q) /\ Fits(q, calls[r]) /\ c \in Call
  BY DEF TypeOK, Control
<1>2. m.do = k /\ m.arg = x
  BY Made
<1>3. /\ k \in {"dropIds", "dropAllIds"} => x \subseteq Identities
      /\ k \in {"putAccess", "dropAccess"} => x \subseteq Entries
      /\ k = "deleteIssuer" => \E i \in Cli : x = {i}
      /\ k = "deleteToken" => x \subseteq Tokens
  BY <1>1 DEF Fits
<1>4. x \in SUBSET (Identities \cup Entries \cup Tokens) /\ k \in Batch \cup {"deleteIssuer"}
  BY <1>3, AgentAssumption DEF Batch
<1>5. m \in Call
  BY <1>4, Made
<1>6. Allowed(q, k) /\ Allowed(q, c.do)
  BY <1>1 DEF Fits, Allowed
<1> HIDE DEF m
<1>7. Fits(q, {m})
  <2>1. ~Precedes(k, k)
    BY DEF Precedes
  <2> QED
    BY <1>2, <1>3, <1>4, <1>6, <2>1 DEF Fits, Plain, Batch
<1>8. \A d \in calls[r] \ {c} : /\ ~Precedes(c.do, d.do) /\ ~Precedes(d.do, c.do) /\ Allowed(q, d.do)
                                /\ d.do = c.do => c.do = "checkIssuer"
  <2> TAKE d \in calls[r] \ {c}
  <2>1. ~Precedes(c.do, d.do) /\ ~Precedes(d.do, c.do) /\ Allowed(q, d.do)
    BY <1>1 DEF Fits
  <2>2. c.do \in Plain \cup Batch => d.do # c.do
    BY OneOfAKind
  <2> QED
    BY <2>1, <2>2 DEF Plain, Batch
<1>9. \A d \in calls[r] \ {c} :
          /\ ~Precedes(d.do, k) /\ ~Precedes(k, d.do)
          /\ d.do = k => k = "deleteIssuer"
  <2> TAKE d \in calls[r] \ {c}
  <2>1. CASE k = c.do /\ c.do # "checkIssuer"
    BY <1>8, <2>1
  <2>2. CASE c.do = "listIds" /\ k = "dropAllIds"
    BY <1>6, <1>8, <2>2 DEF Precedes, Allowed
  <2>3. CASE c.do = "listAccess" /\ k = "dropAccess"
    BY <1>6, <1>8, <2>3 DEF Precedes, Allowed
  <2>4. CASE c.do = "checkIssuer" /\ k = "deleteIssuer"
    BY <1>6, <1>8, <2>4 DEF Precedes, Allowed
  <2>5. CASE c.do = "readToken" /\ k = "deleteToken"
    BY <1>6, <1>8, <2>5 DEF Precedes, Allowed
  <2> QED
    BY <2>1, <2>2, <2>3, <2>4, <2>5
<1>10. Follows(q, calls[r], c, {m})
  BY <1>2, <1>5, <1>7, <1>9 DEF Follows, Batch
<1> QED
  BY <1>10 DEF m

\* A request that reads has another body, and the calls it has fit that too.
LEMMA FitsRead ==
    ASSUME NEW q \in Request, NEW C, Fits(q, C), \A c \in C : c.do # "claim",
           NEW ids \in (SUBSET Identities) \cup {Keep}, NEW acc \in (SUBSET Entries) \cup {Keep},
           q.op \in {"delete", "resolve"}
    PROVE  /\ Fits([q EXCEPT !.ids = ids], C) /\ [q EXCEPT !.ids = ids] \in Request
           /\ Fits([q EXCEPT !.acc = acc], C) /\ [q EXCEPT !.acc = acc] \in Request
           /\ Placed(q) => Placed([q EXCEPT !.ids = ids]) /\ Placed([q EXCEPT !.acc = acc])
           /\ Waits(q, C) => Waits([q EXCEPT !.ids = ids], C) /\ Waits([q EXCEPT !.acc = acc], C)
<1>1. ASSUME NEW f, f = [q EXCEPT !.ids = ids] \/ f = [q EXCEPT !.acc = acc]
      PROVE  /\ Fits(f, C) /\ f \in Request
             /\ Placed(q) => Placed(f)
             /\ Waits(q, C) => Waits(f, C)
  <2>1. /\ f.op = q.op /\ f.stage = q.stage /\ f.new = q.new /\ f.failed = q.failed
        /\ \A k : Allowed(f, k) <=> Allowed(q, k)
    BY <1>1 DEF Request, Allowed
  <2>2. f \in Request
    BY <1>1 DEF Request
  <2>3. Fits(f, C)
    BY <2>1 DEF Fits
  <2>4. Placed(q) => Placed(f)
    BY <2>1 DEF Placed
  <2>5. Waits(q, C) => Waits(f, C)
    BY <2>1 DEF Waits
  <2> QED
    BY <2>2, <2>3, <2>4, <2>5
<1> QED
  BY <1>1

LEMMA ReadIdsMoves ==
    ASSUME TypeOK, Control, Names, NEW r \in Requests, ReadIds(r)
    PROVE  Moves(r) /\ Typed'
<1> DEFINE q == req[r]
           has == IdsOf(q.agent)
<1> PICK c \in calls[r] :
        /\ \/ /\ c.do = "readIds"
              /\ Succeed(r, c, ReplaceIds(has, q.ids))
              /\ UNCHANGED req
           \/ /\ c.do = "listIds"
              /\ Succeed(r, c, IF has = {} THEN AfterDrop(q.agent, {}) ELSE {With("dropAllIds", has)})
              /\ req' = [req EXCEPT ![r].ids = has]
           \/ /\ c.do = "getIds"
              /\ Succeed(r, c, {})
              /\ req' = [req EXCEPT ![r].ids = has \cup {q.new}]
        /\ UNCHANGED <<tables, initTable>>
  BY DEF ReadIds
<1>1. has \in SUBSET Identities /\ q \in Request /\ Placed(q) /\ Fits(q, calls[r]) /\ calls[r] \subseteq Call
  BY DEF IdsOf, TypeOK, Control
<1>2. UNCHANGED <<known, started, faults, said, broken, raced>>
  BY DEF Succeed, others, ghosts
<1>3. Typed'
  BY <1>2 DEF Typed, TypeOK, tables, initTable
<1>4. ASSUME NEW more, NEW ids \in SUBSET Identities, Succeed(r, c, more), Follows(q, calls[r], c, more),
             req' = [req EXCEPT ![r].ids = ids],
             q.op \in {"delete", "resolve"}, \A d \in (calls[r] \ {c}) \cup more : d.do # "claim"
      PROVE  Moves(r)
  <2> DEFINE f == [q EXCEPT !.ids = ids]
             C == (calls[r] \ {c}) \cup more
  <2>1. Fits(q, C) /\ Waits(q, C)
    BY <1>1, <1>4, FollowFits
  <2>2. C \in SUBSET Call
    BY <1>1, <1>4 DEF Follows
  <2>3. Fits(f, C) /\ Waits(f, C) /\ Placed(f) /\ f \in Request
    BY <1>1, <1>4, <2>1, FitsRead
  <2>4. req' = [req EXCEPT ![r] = f] /\ calls' = [calls EXCEPT ![r] = C]
    BY <1>4 DEF Succeed, TypeOK
  <2> QED
    BY <2>2, <2>3, <2>4 DEF Moves, Becomes
<1>5. CASE c.do = "readIds" /\ Succeed(r, c, ReplaceIds(has, q.ids)) /\ UNCHANGED req
  <2>1. Follows(q, calls[r], c, ReplaceIds(has, q.ids))
    BY <1>1, <1>5, ReplaceIdsFollows
  <2> QED
    BY <1>3, <1>5, <2>1, SucceedMoves
<1>6. CASE /\ c.do = "listIds"
           /\ Succeed(r, c, IF has = {} THEN AfterDrop(q.agent, {}) ELSE {With("dropAllIds", has)})
           /\ req' = [req EXCEPT ![r].ids = has]
  <2>1. q.op = "delete" /\ \A k : Allowed(q, k) => k # "claim"
    BY <1>1, <1>6 DEF Fits, Allowed
  <2>2. Follows(q, calls[r], c, AfterDrop(q.agent, {})) /\ Follows(q, calls[r], c, {With("dropAllIds", has)})
    BY <1>1, <1>6, AfterDropFollows, BatchFollows
  <2>3. ASSUME NEW more, Follows(q, calls[r], c, more), Succeed(r, c, more) PROVE Moves(r)
    <3>1. \A d \in (calls[r] \ {c}) \cup more : d.do # "claim"
      BY <1>1, <2>1, <2>3 DEF Follows, Fits
    <3> QED
      BY <1>1, <1>4, <1>6, <2>1, <2>3, <3>1
  <2> QED
    BY <1>3, <1>6, <2>2, <2>3
<1>7. CASE c.do = "getIds" /\ Succeed(r, c, {}) /\ req' = [req EXCEPT ![r].ids = has \cup {q.new}]
  <2>1. q.op = "resolve" /\ q.stage = "get" /\ \A k : Allowed(q, k) => k # "claim"
    BY <1>1, <1>7 DEF Fits, Allowed
  <2>2. has \cup {q.new} \in SUBSET Identities
    BY <1>1, <2>1 DEF Placed, Request
  <2>3. \A d \in (calls[r] \ {c}) \cup {} : d.do # "claim"
    BY <1>1, <2>1 DEF Fits
  <2>4. Follows(q, calls[r], c, {})
    BY <1>7, NothingFollows
  <2> QED
    BY <1>3, <1>4, <1>7, <2>1, <2>2, <2>3, <2>4
<1> QED
  BY <1>5, <1>6, <1>7

LEMMA ReadAccessMoves ==
    ASSUME TypeOK, Control, Names, NEW r \in Requests, ReadAccess(r)
    PROVE  Moves(r) /\ Typed'
<1> DEFINE q == req[r]
           has == access[q.agent]
<1> PICK c \in calls[r] :
        /\ \/ /\ c.do = "readAccess"
              /\ Succeed(r, c, ReplaceAccess(has, q.acc))
              /\ UNCHANGED req
           \/ /\ c.do = "listAccess"
              /\ Succeed(r, c, IF has = {} THEN {} ELSE {With("dropAccess", has)})
              /\ UNCHANGED req
           \/ /\ c.do = "getAccess"
              /\ Succeed(r, c, {})
              /\ req' = [req EXCEPT ![r].acc = IF has = {} THEN Keep ELSE has]
        /\ UNCHANGED <<tables, initTable>>
  BY DEF ReadAccess
<1>1. q \in Request /\ Placed(q) /\ Fits(q, calls[r]) /\ calls[r] \subseteq Call
  BY DEF TypeOK, Control
<1>2. has \in SUBSET Entries
  <2>1. q.agent \in Agents
    BY <1>1 DEF Fits, Allowed, Names, TypeOK
  <2> QED
    BY <2>1 DEF TypeOK
<1>3. UNCHANGED <<known, started, faults, said, broken, raced>>
  BY DEF Succeed, others, ghosts
<1>4. Typed'
  BY <1>3 DEF Typed, TypeOK, tables, initTable
<1>5. CASE c.do = "readAccess" /\ Succeed(r, c, ReplaceAccess(has, q.acc)) /\ UNCHANGED req
  <2>1. Follows(q, calls[r], c, ReplaceAccess(has, q.acc))
    BY <1>2, <1>5, ReplaceAccessFollows
  <2> QED
    BY <1>4, <1>5, <2>1, SucceedMoves
<1>6. CASE /\ c.do = "listAccess" /\ UNCHANGED req
           /\ Succeed(r, c, IF has = {} THEN {} ELSE {With("dropAccess", has)})
  <2>1. Follows(q, calls[r], c, {}) /\ Follows(q, calls[r], c, {With("dropAccess", has)})
    BY <1>2, <1>6, NothingFollows, BatchFollows
  <2> QED
    BY <1>4, <1>6, <2>1, SucceedMoves
<1>7. CASE c.do = "getAccess" /\ Succeed(r, c, {}) /\ req' = [req EXCEPT ![r].acc = IF has = {} THEN Keep ELSE has]
  <2> DEFINE acc == IF has = {} THEN Keep ELSE has
             f == [q EXCEPT !.acc = acc]
             C == calls[r] \ {c}
  <2>1. q.op = "resolve" /\ q.stage = "get" /\ \A k : Allowed(q, k) => k # "claim"
    BY <1>1, <1>7 DEF Fits, Allowed
  <2>2. acc \in (SUBSET Entries) \cup {Keep}
    BY <1>2
  <2>3. Fits(q, C) /\ Waits(q, C) /\ \A d \in C : d.do # "claim"
    BY <1>1, <2>1, FitsLess DEF Waits, Fits
  <2> HIDE DEF acc
  <2>4. Fits(f, C) /\ Waits(f, C) /\ Placed(f) /\ f \in Request
    BY <1>1, <2>1, <2>2, <2>3, FitsRead
  <2>5. req' = [req EXCEPT ![r] = f] /\ calls' = [calls EXCEPT ![r] = C]
    BY <1>7 DEF Succeed, TypeOK, acc
  <2>6. C \in SUBSET Call
    BY <1>1
  <2> QED
    BY <1>4, <2>4, <2>5, <2>6 DEF Moves, Becomes
<1> QED
  BY <1>5, <1>6, <1>7

LEMMA ClaimMoves ==
    ASSUME TypeOK, Control, Names, NEW r \in Requests, Claim(r)
    PROVE  Moves(r) /\ Typed'
<1> PICK c \in calls[r], i \in Identities :
        /\ c = With("claim", {i})
        /\ IF owner[i] = None
           THEN owner' = [owner EXCEPT ![i] = req[r].agent] /\ Succeed(r, c, {}) /\ UNCHANGED req
           ELSE Refuse(r, c) /\ UNCHANGED <<owner, faults>>
        /\ UNCHANGED <<row, access, issuers, initTable>>
  BY DEF Claim
<1>1. CASE owner[i] = None
  <2>1. c.do = "claim"
    BY Made
  <2>2. Follows(req[r], calls[r], c, {})
    BY <2>1, NothingFollows
  <2>3. Moves(r) /\ UNCHANGED <<known, started, faults, said, broken, raced>>
    BY <1>1, <2>2, SucceedMoves
  <2>4. req[r].agent \in Agents \cup {None}
    BY DEF TypeOK, Request
  <2>5. owner' \in [Identities -> Agents \cup {None}]
    BY <1>1, <2>4 DEF TypeOK
  <2> QED
    BY <2>3, <2>5 DEF Typed, TypeOK, initTable
<1>2. CASE owner[i] # None
  <2>1. Moves(r) /\ broken' \subseteq Agents /\ UNCHANGED <<known, started, said, raced>>
    BY <1>2, RefuseTyped
  <2> QED
    BY <1>2, <2>1 DEF Typed, TypeOK, initTable
<1> QED
  BY <1>1, <1>2

LEMMA DropIdMoves ==
    ASSUME TypeOK, Control, Names, NEW r \in Requests, DropId(r)
    PROVE  Moves(r) /\ Typed'
<1> PICK c \in calls[r] :
        /\ c.do \in {"dropIds", "dropAllIds"}
        /\ \E i \in c.arg :
              /\ owner' = [owner EXCEPT ![i] = None]
              /\ Succeed(r, c, IF c.arg # {i} THEN {With(c.do, c.arg \ {i})}
                               ELSE IF c.do = "dropAllIds" THEN AfterDrop(req[r].agent, req[r].ids)
                               ELSE {})
        /\ UNCHANGED <<row, access, issuers, initTable, req>>
  BY DEF DropId
<1> PICK i \in c.arg :
        /\ owner' = [owner EXCEPT ![i] = None]
        /\ Succeed(r, c, IF c.arg # {i} THEN {With(c.do, c.arg \ {i})}
                         ELSE IF c.do = "dropAllIds" THEN AfterDrop(req[r].agent, req[r].ids)
                         ELSE {})
  OBVIOUS
<1>1. owner' \in [Identities -> Agents \cup {None}]
  BY DEF TypeOK
<1>2. Follows(req[r], calls[r], c, {With(c.do, c.arg \ {i})}) /\ Follows(req[r], calls[r], c, {})
  BY BatchFollows, NothingFollows
<1>3. c.do = "dropAllIds" => Follows(req[r], calls[r], c, AfterDrop(req[r].agent, req[r].ids))
  <2> HAVE c.do = "dropAllIds"
  <2>1. req[r].ids \in SUBSET Identities
    BY DEF Names, TypeOK, Request
  <2> QED
    BY <2>1, AfterDropFollows
<1>4. Moves(r) /\ UNCHANGED <<known, started, faults, said, broken, raced>>
  BY <1>2, <1>3, SucceedMoves
<1> QED
  BY <1>1, <1>4 DEF Typed, TypeOK, initTable

LEMMA WriteAccessMoves ==
    ASSUME TypeOK, Control, Names, NEW r \in Requests, WriteAccess(r)
    PROVE  Moves(r) /\ Typed'
<1> PICK c \in calls[r] :
        /\ c.do \in {"putAccess", "dropAccess"}
        /\ \E e \in c.arg :
              /\ access' = [access EXCEPT ![req[r].agent] =
                              IF c.do = "putAccess" THEN @ \cup {e} ELSE @ \ {e}]
              /\ Succeed(r, c, IF c.arg = {e} THEN {} ELSE {With(c.do, c.arg \ {e})})
        /\ UNCHANGED <<row, owner, issuers, initTable, req>>
  BY DEF WriteAccess
<1> PICK e \in c.arg :
        /\ access' = [access EXCEPT ![req[r].agent] =
                        IF c.do = "putAccess" THEN @ \cup {e} ELSE @ \ {e}]
        /\ Succeed(r, c, IF c.arg = {e} THEN {} ELSE {With(c.do, c.arg \ {e})})
  OBVIOUS
<1>1. e \in Entries
  BY DEF Control, Fits
<1>2. access' \in [Agents -> SUBSET Entries]
  BY <1>1 DEF TypeOK
<1>3. Follows(req[r], calls[r], c, {With(c.do, c.arg \ {e})}) /\ Follows(req[r], calls[r], c, {})
  BY BatchFollows, NothingFollows
<1>4. Moves(r) /\ UNCHANGED <<known, started, faults, said, broken, raced>>
  BY <1>3, SucceedMoves
<1> QED
  BY <1>2, <1>4 DEF Typed, TypeOK, initTable

LEMMA CheckIssuerMoves ==
    ASSUME TypeOK, Control, Names, NEW r \in Requests, CheckIssuer(r)
    PROVE  Moves(r) /\ Typed'
<1> PICK c \in calls[r], i \in Cli :
        /\ c = With("checkIssuer", {i})
        /\ Succeed(r, c, IF owner[i] = None THEN {With("deleteIssuer", {i})} ELSE {})
        /\ UNCHANGED <<tables, initTable, req>>
  BY DEF CheckIssuer
<1>1. c.do = "checkIssuer" /\ c.arg = {i}
  BY Made
<1>2. Follows(req[r], calls[r], c, {With("deleteIssuer", {i})}) /\ Follows(req[r], calls[r], c, {})
  BY <1>1, BatchFollows, NothingFollows
<1>3. Moves(r) /\ UNCHANGED <<known, started, faults, said, broken, raced>>
  BY <1>2, SucceedMoves
<1> QED
  BY <1>3 DEF Typed, TypeOK, tables, initTable

LEMMA DeleteIssuerMoves ==
    ASSUME TypeOK, Control, Names, NEW r \in Requests, DeleteIssuer(r)
    PROVE  Moves(r) /\ Typed'
<1> PICK c \in calls[r], i \in Cli :
        /\ c = With("deleteIssuer", {i})
        /\ IF i \in issuers
           THEN issuers' = issuers \ {i} /\ Succeed(r, c, {}) /\ UNCHANGED req
           ELSE Refuse(r, c) /\ UNCHANGED <<issuers, faults>>
        /\ UNCHANGED <<row, owner, access, initTable>>
  BY DEF DeleteIssuer
<1>1. c.do = "deleteIssuer"
  BY Made
<1>2. CASE i \in issuers
  <2>1. Follows(req[r], calls[r], c, {})
    BY <1>1, NothingFollows
  <2>2. Moves(r) /\ UNCHANGED <<known, started, faults, said, broken, raced>>
    BY <1>2, <2>1, SucceedMoves
  <2> QED
    BY <1>2, <2>2 DEF Typed, TypeOK, initTable
<1>3. CASE i \notin issuers
  <2>1. Moves(r) /\ broken' \subseteq Agents /\ UNCHANGED <<known, started, said, raced>>
    BY <1>3, RefuseTyped
  <2> QED
    BY <1>3, <2>1 DEF Typed, TypeOK, initTable
<1> QED
  BY <1>2, <1>3

LEMMA PutTokenMoves ==
    ASSUME TypeOK, Control, Names, NEW r \in Requests, PutToken(r)
    PROVE  Moves(r) /\ Typed'
<1> PICK c \in calls[r], n \in Tokens \ Issued, cli \in {None} \cup Cli :
        /\ c.do = "putToken"
        /\ token' = [token EXCEPT ![req[r].agent] = n]
        /\ tokens' = [tokens EXCEPT ![n] = [agent |-> req[r].agent, cli |-> cli]]
        /\ Succeed(r, c, {})
        /\ UNCHANGED <<tables, passed, req>>
  BY DEF PutToken
<1>1. Follows(req[r], calls[r], c, {})
  BY NothingFollows
<1>2. Moves(r) /\ UNCHANGED <<known, started, faults, said, broken, raced>>
  BY <1>1, SucceedMoves
<1>3. req[r].agent \in Agents \cup {None} /\ n \in 0..MaxTokens
  BY AgentAssumption DEF TypeOK, Request, Tokens
<1>4. token' \in [Agents -> 0..MaxTokens]
  BY <1>3 DEF TypeOK
<1>5. tokens' \in [Tokens -> [agent : Agents \cup {None}, cli : Cli \cup {None}]]
  BY <1>3 DEF TypeOK
<1> QED
  BY <1>2, <1>4, <1>5 DEF Typed, TypeOK, tables

LEMMA ReadTokenMoves ==
    ASSUME TypeOK, Control, Names, NEW r \in Requests, ReadToken(r)
    PROVE  Moves(r) /\ Typed'
<1> DEFINE n == token[req[r].agent]
<1> PICK c \in calls[r] :
        /\ c.do = "readToken"
        /\ IF n # 0 THEN Succeed(r, c, {With("deleteToken", {n})}) /\ UNCHANGED req
           ELSE Refuse(r, c) /\ UNCHANGED faults
        /\ UNCHANGED <<tables, initTable>>
  BY DEF ReadToken
<1>1. CASE n # 0
  <2>1. req[r].agent \in Agents
    BY DEF Control, Fits, Allowed, Names, TypeOK
  <2>2. n \in Tokens
    BY <1>1, <2>1, AgentAssumption DEF TypeOK, Tokens
  <2>3. Follows(req[r], calls[r], c, {With("deleteToken", {n})})
    BY <2>2, BatchFollows
  <2>4. Moves(r) /\ UNCHANGED <<known, started, faults, said, broken, raced>>
    BY <1>1, <2>3, SucceedMoves
  <2> QED
    BY <2>4 DEF Typed, TypeOK, tables, initTable
<1>2. CASE n = 0
  <2>1. Moves(r) /\ broken' \subseteq Agents /\ UNCHANGED <<known, started, said, raced>>
    BY <1>2, RefuseTyped
  <2> QED
    BY <1>2, <2>1 DEF Typed, TypeOK, tables, initTable
<1> QED
  BY <1>1, <1>2

\* A request about which nothing but its stage has changed.
LEMMA Staged ==
    ASSUME NEW q \in Request, NEW stage \in {"get", "issuer", "write"}, q.op = "resolve", Placed(q)
    PROVE  LET f == [q EXCEPT !.stage = stage]
           IN /\ f \in Request /\ f.stage = stage /\ f.op = q.op /\ f.agent = q.agent /\ f.ids = q.ids
              /\ f.acc = q.acc /\ f.tok = q.tok /\ f.new = q.new /\ f.failed = q.failed /\ Placed(f)
<1> DEFINE f == [q EXCEPT !.stage = stage]
<1>1. /\ f.stage = stage /\ f.op = q.op /\ f.agent = q.agent /\ f.ids = q.ids
      /\ f.acc = q.acc /\ f.tok = q.tok /\ f.new = q.new /\ f.failed = q.failed
  BY DEF Request
<1>2. f \in Request
  BY DEF Request
<1>3. Placed(f)
  BY <1>1 DEF Placed
<1> QED
  BY <1>1, <1>2, <1>3

LEMMA DeleteTokenMoves ==
    ASSUME TypeOK, Control, Names, NEW r \in Requests, DeleteToken(r)
    PROVE  Moves(r) /\ Typed'
<1> DEFINE q == req[r]
<1> PICK c \in calls[r] :
        /\ c.do = "deleteToken"
        /\ token' = [token EXCEPT ![q.agent] = 0]
        /\ IF token[q.agent] # 0 /\ c.arg = {q.tok}
           THEN /\ passed' = [passed EXCEPT ![q.tok] = @ + 1]
                /\ req' = [req EXCEPT ![r].stage = "get"]
                /\ Succeed(r, c, {Do("getRow"), Do("getIds"), Do("getAccess")})
           ELSE Refuse(r, c) /\ UNCHANGED <<passed, faults>>
        /\ UNCHANGED <<tables, tokens>>
  BY DEF DeleteToken
<1>1. q \in Request /\ Placed(q) /\ Fits(q, calls[r]) /\ calls[r] \subseteq Call
  BY DEF TypeOK, Control
<1>2. q.op = "resolve" /\ q.stage = "token"
  BY <1>1 DEF Fits, Allowed
<1>3. token' \in [Agents -> 0..MaxTokens]
  <2>1. 0 \in 0..MaxTokens
    BY AgentAssumption
  <2>2. token' = [token EXCEPT ![q.agent] = 0] /\ token \in [Agents -> 0..MaxTokens]
    BY DEF TypeOK
  <2> QED
    BY <2>1, <2>2
<1>4. CASE token[q.agent] # 0 /\ c.arg = {q.tok}
  <2> DEFINE f == [q EXCEPT !.stage = "get"]
             C == {Do("getRow"), Do("getIds"), Do("getAccess")}
  <2>1. f \in Request /\ Placed(f) /\ f.op = "resolve" /\ f.stage = "get"
    BY <1>1, <1>2, Staged
  <2>2. Fits(f, C) /\ Waits(f, C) /\ C \in SUBSET Call
    BY <2>1, FirstFit, Made DEF Waits, Plain
  <2>3. calls[r] \ {c} = {}
    <3> SUFFICES ASSUME NEW d \in calls[r] PROVE d = c
      OBVIOUS
    <3>1. d.do = "deleteToken"
      BY <1>1, <1>2 DEF Fits, Allowed, Precedes
    <3> QED
      BY <3>1, OneOfAKind DEF Batch
  <2>4. req' = [req EXCEPT ![r] = f] /\ calls' = [calls EXCEPT ![r] = C]
    <3>1. calls' = [calls EXCEPT ![r] = (calls[r] \ {c}) \cup C]
      BY <1>4 DEF Succeed
    <3>2. (calls[r] \ {c}) \cup C = C
      BY <2>3
    <3>3. req' = [req EXCEPT ![r] = f]
      BY <1>4 DEF TypeOK
    <3> QED
      BY <3>1, <3>2, <3>3
  <2>5. Moves(r)
    BY <2>1, <2>2, <2>4 DEF Moves, Becomes
  <2>6. passed' \in [Tokens -> Nat]
    BY <1>4 DEF TypeOK
  <2>7. UNCHANGED <<known, started, faults, said, broken, raced>>
    BY <1>4 DEF Succeed, others, ghosts
  <2> QED
    BY <1>3, <2>5, <2>6, <2>7 DEF Typed, TypeOK, tables
<1>5. CASE ~(token[q.agent] # 0 /\ c.arg = {q.tok})
  <2>1. Moves(r) /\ broken' \subseteq Agents /\ UNCHANGED <<known, started, said, raced>>
    BY <1>5, RefuseTyped
  <2> QED
    BY <1>3, <1>5, <2>1 DEF Typed, TypeOK, tables
<1> QED
  BY <1>4, <1>5

LEMMA GotAgentMoves ==
    ASSUME TypeOK, Control, Names, NEW r \in Requests, GotAgent(r)
    PROVE  Moves(r) /\ Typed'
<1> DEFINE q == req[r]
<1>1. q \in Request /\ Placed(q)
  BY DEF TypeOK, Control
<1>2. q.op = "resolve" /\ q.stage = "get"
  BY <1>1 DEF GotAgent, Placed
<1>3. Typed'
  BY DEF GotAgent, Typed, TypeOK, tables, initTable, others, ghosts
<1>4. CASE q.new \in Cli
  <2> DEFINE f == [q EXCEPT !.stage = "issuer"]
             C == {With("addIssuer", {q.new})}
  <2>1. f \in Request /\ Placed(f) /\ f.op = "resolve" /\ f.stage = "issuer" /\ f.new = q.new
    BY <1>1, <1>2, Staged
  <2>2. Fits(f, C) /\ Waits(f, C)
    BY <2>1, FirstFit DEF Waits
  <2>3. C \in SUBSET Call
    BY <1>4, Made, AgentAssumption DEF Batch
  <2>4. req' = [req EXCEPT ![r] = f] /\ calls' = [calls EXCEPT ![r] = C]
    BY <1>4 DEF GotAgent, TypeOK
  <2> QED
    BY <1>3, <2>1, <2>2, <2>3, <2>4 DEF Moves, Becomes
<1>5. CASE q.new \notin Cli
  <2> DEFINE f == [q EXCEPT !.stage = "write"]
  <2>1. f \in Request /\ Placed(f) /\ f.op = "resolve" /\ f.stage = "write"
    BY <1>1, <1>2, Staged
  <2>2. Fits(f, UpdateCalls) /\ Waits(f, UpdateCalls)
    BY <2>1, FirstFit DEF Waits
  <2>3. UpdateCalls \in SUBSET Call
    BY Made DEF UpdateCalls, Plain
  <2>4. req' = [req EXCEPT ![r] = f] /\ calls' = [calls EXCEPT ![r] = UpdateCalls]
    BY <1>5 DEF GotAgent, TypeOK
  <2> QED
    BY <1>3, <2>1, <2>2, <2>3, <2>4 DEF Moves, Becomes
<1> QED
  BY <1>4, <1>5

LEMMA AddIssuerMoves ==
    ASSUME TypeOK, Control, Names, NEW r \in Requests, AddIssuer(r)
    PROVE  Moves(r) /\ Typed'
<1> DEFINE q == req[r]
<1> PICK c \in calls[r] :
        /\ c = With("addIssuer", {q.new})
        /\ IF q.new \notin issuers
           THEN /\ issuers' = issuers \cup {q.new}
                /\ req' = [req EXCEPT ![r].stage = "write"]
                /\ Succeed(r, c, UpdateCalls)
           ELSE Refuse(r, c) /\ UNCHANGED <<issuers, faults>>
        /\ UNCHANGED <<row, owner, access, initTable>>
  BY DEF AddIssuer
<1>1. q \in Request /\ Placed(q) /\ Fits(q, calls[r]) /\ calls[r] \subseteq Call /\ c.do = "addIssuer"
  BY Made DEF TypeOK, Control
<1>2. q.op = "resolve" /\ q.stage = "issuer"
  BY <1>1 DEF Fits, Allowed
<1>3. CASE q.new \notin issuers
  <2> DEFINE f == [q EXCEPT !.stage = "write"]
  <2>1. f \in Request /\ Placed(f) /\ f.op = "resolve" /\ f.stage = "write"
    BY <1>1, <1>2, Staged
  <2>2. Fits(f, UpdateCalls) /\ Waits(f, UpdateCalls) /\ UpdateCalls \in SUBSET Call
    BY <2>1, FirstFit, Made DEF Waits, UpdateCalls, Plain
  <2>3. calls[r] \ {c} = {}
    <3> SUFFICES ASSUME NEW d \in calls[r] PROVE d = c
      OBVIOUS
    <3>1. d.do = "addIssuer" /\ d.arg = {q.new} /\ d \in Call /\ c \in Call /\ c.arg = {q.new}
      BY <1>1, <1>2, Made DEF Fits, Allowed
    <3> QED
      BY <1>1, <3>1 DEF Call
  <2>4. req' = [req EXCEPT ![r] = f] /\ calls' = [calls EXCEPT ![r] = UpdateCalls]
    <3>1. calls' = [calls EXCEPT ![r] = (calls[r] \ {c}) \cup UpdateCalls]
      BY <1>3 DEF Succeed
    <3>2. (calls[r] \ {c}) \cup UpdateCalls = UpdateCalls
      BY <2>3
    <3>3. req' = [req EXCEPT ![r] = f]
      BY <1>3 DEF TypeOK
    <3> QED
      BY <3>1, <3>2, <3>3
  <2>5. Moves(r)
    BY <2>1, <2>2, <2>4 DEF Moves, Becomes
  <2>6. q.new \in Cli
    BY <1>2 DEF Names
  <2>7. UNCHANGED <<known, started, faults, said, broken, raced>>
    BY <1>3 DEF Succeed, others, ghosts
  <2> QED
    BY <1>3, <2>5, <2>6, <2>7 DEF Typed, TypeOK, initTable
<1>4. CASE q.new \in issuers
  <2>1. Moves(r) /\ broken' \subseteq Agents /\ UNCHANGED <<known, started, said, raced>>
    BY <1>4, RefuseTyped
  <2> QED
    BY <1>4, <2>1 DEF Typed, TypeOK, initTable
<1> QED
  BY <1>3, <1>4

LEMMA AnswerMoves ==
    ASSUME TypeOK, Control, Names, NEW r \in Requests, Answer(r)
    PROVE  Moves(r) /\ Typed'
<1> DEFINE q == req[r]
<1>1. q \in Request /\ calls[r] = {}
  BY DEF TypeOK, Answer
<1>2. /\ req' = [req EXCEPT ![r] = Idle] /\ calls' = [calls EXCEPT ![r] = {}]
  BY DEF Answer, TypeOK
<1>3. Placed(Idle) /\ Fits(Idle, {}) /\ Waits(Idle, {})
  BY DEF Placed, Fits, Waits, Idle
<1>4. Moves(r)
  BY <1>2, <1>3, IdleRequest DEF Moves, Becomes
<1>5. said' \in [Agents -> [row : BOOLEAN, ids : SUBSET Identities, acc : SUBSET Entries]]
  <2> DEFINE s == said[q.agent]
  <2>1. CASE q.failed
    BY <2>1 DEF Answer, TypeOK
  <2>2. CASE ~q.failed
    <3>1. q.agent \in Agents
      BY DEF Answer, Names, TypeOK
    <3>2. s \in [row : BOOLEAN, ids : SUBSET Identities, acc : SUBSET Entries]
      BY <3>1 DEF TypeOK
    <3>3. After(q, s) \in [row : BOOLEAN, ids : SUBSET Identities, acc : SUBSET Entries]
      <4> HIDE DEF s, q
      <4>1. CASE q.op = "add"
        <5>1. After(q, s) = [row |-> TRUE, ids |-> q.ids, acc |-> q.acc]
          BY <4>1 DEF After
        <5>2. q.ids \in SUBSET Identities /\ q.acc \in SUBSET Entries
          BY <1>1, <4>1 DEF Control, Placed, Request, q
        <5> QED
          BY <5>1, <5>2
      <4>2. CASE q.op = "update"
        <5>1. After(q, s) = [row |-> TRUE, ids |-> IF q.ids = Keep THEN s.ids ELSE q.ids,
                                           acc |-> IF q.acc = Keep THEN s.acc ELSE q.acc]
          BY <4>2 DEF After
        <5> QED
          BY <1>1, <3>2, <5>1 DEF Request
      <4>3. CASE q.op = "delete"
        BY <4>3 DEF After, Nothing
      <4>4. CASE q.op = "resolve"
        <5>1. After(q, s) = [s EXCEPT !.ids = @ \cup {q.new}]
          BY <4>4 DEF After
        <5>2. q.new \in Identities
          BY <1>1, <4>4 DEF Control, Placed, Request, q
        <5> QED
          BY <3>2, <5>1, <5>2
      <4>5. CASE q.op \notin {"add", "update", "delete", "resolve"}
        <5>1. After(q, s) = s
          BY <4>5 DEF After
        <5> QED
          BY <3>2, <5>1
      <4> QED
        BY <4>1, <4>2, <4>3, <4>4, <4>5
    <3>4. said' = [said EXCEPT ![q.agent] = After(q, s)]
      BY <2>2 DEF Answer
    <3> QED
      BY <3>3, <3>4 DEF TypeOK
  <2> QED
    BY <2>1, <2>2
<1> QED
  BY <1>4, <1>5 DEF Typed, TypeOK, Answer, tables, initTable

LEMMA NextMoves ==
    ASSUME TypeOK, Control, Names, NEW r \in Requests,
           \/ AddAgent(r) \/ UpdateAgent(r) \/ DeleteAgent(r) \/ InitAgent(r) \/ Resolve(r)
           \/ InsertRow(r) \/ UndoRow(r) \/ UpdateRow(r) \/ DeleteRow(r) \/ CheckRow(r) \/ GetRow(r)
           \/ ReadIds(r) \/ Claim(r) \/ DropId(r) \/ ReadAccess(r) \/ WriteAccess(r)
           \/ CheckIssuer(r) \/ DeleteIssuer(r) \/ AddIssuer(r)
           \/ PutToken(r) \/ ReadToken(r) \/ DeleteToken(r) \/ GotAgent(r)
           \/ Fault(r) \/ Answer(r)
    PROVE  Moves(r) /\ TypeOK' /\ Control'
<1>1. Moves(r) /\ Typed'
  <2>1. CASE AddAgent(r) \/ UpdateAgent(r) \/ DeleteAgent(r) \/ InitAgent(r) \/ Resolve(r)
    BY <2>1, ArrivesIs, ArrivesMoves
  <2>2. CASE InsertRow(r) \/ UndoRow(r) \/ UpdateRow(r) \/ DeleteRow(r) \/ CheckRow(r) \/ GetRow(r)
    BY <2>2, RowMoves
  <2>3. CASE ReadIds(r) \/ Claim(r) \/ DropId(r) \/ ReadAccess(r) \/ WriteAccess(r)
    BY <2>3, ReadIdsMoves, ClaimMoves, DropIdMoves, ReadAccessMoves, WriteAccessMoves
  <2>4. CASE CheckIssuer(r) \/ DeleteIssuer(r) \/ AddIssuer(r)
    BY <2>4, CheckIssuerMoves, DeleteIssuerMoves, AddIssuerMoves
  <2>5. CASE PutToken(r) \/ ReadToken(r) \/ DeleteToken(r) \/ GotAgent(r)
    BY <2>5, PutTokenMoves, ReadTokenMoves, DeleteTokenMoves, GotAgentMoves
  <2>6. CASE Fault(r) \/ Answer(r)
    BY <2>6, FaultMoves, AnswerMoves
  <2> QED
    BY <2>1, <2>2, <2>3, <2>4, <2>5, <2>6
<1> QED
  BY <1>1, MovesKeep

-----------------------------------------------------------------------------
(* What the requests name.                                                 *)

\* Tokens that were issued stay as they are.
TokensKept == \A n \in Issued : n \in Issued' /\ tokens'[n] = tokens[n]

LEMMA SameTokens ==
    ASSUME UNCHANGED initTable
    PROVE  TokensKept
BY DEF initTable, TokensKept, Issued

\* Request r is now q with the calls C.
LEMMA NamesStep ==
    ASSUME TypeOK, Names, NEW r \in Requests, NEW q, NEW C,
           req' = [req EXCEPT ![r] = q], calls' = [calls EXCEPT ![r] = C],
           TokensKept, known \subseteq known',
           q.op # "none" => q.agent \in known',
           q.op = "resolve" => q.tok \in Issued' /\ tokens'[q.tok].agent = q.agent,
           \A i \in Cli : With("checkIssuer", {i}) \in C \/ With("deleteIssuer", {i}) \in C
              => \E n \in Issued' : tokens'[n] = [agent |-> q.agent, cli |-> i],
           \A c \in C : c.do = "dropAllIds" => q.ids # Keep,
           q.op = "resolve" /\ q.stage = "issuer" => q.new \in Cli
    PROVE  Names'
<1> SUFFICES ASSUME NEW s \in Requests
             PROVE  /\ req'[s].op # "none" => req'[s].agent \in known'
                    /\ req'[s].op = "resolve" =>
                          req'[s].tok \in Issued' /\ tokens'[req'[s].tok].agent = req'[s].agent
                    /\ \A i \in Cli :
                          With("checkIssuer", {i}) \in calls'[s] \/ With("deleteIssuer", {i}) \in calls'[s]
                          => \E n \in Issued' : tokens'[n] = [agent |-> req'[s].agent, cli |-> i]
                    /\ \A c \in calls'[s] : c.do = "dropAllIds" => req'[s].ids # Keep
                    /\ req'[s].op = "resolve" /\ req'[s].stage = "issuer" => req'[s].new \in Cli
  BY DEF Names
<1>1. CASE s = r
  <2>1. req'[s] = q /\ calls'[s] = C
    BY <1>1 DEF TypeOK
  <2> QED
    BY <2>1
<1>2. CASE s # r
  <2>1. req'[s] = req[s] /\ calls'[s] = calls[s]
    BY <1>2 DEF TypeOK
  <2> QED
    BY <2>1 DEF Names, TokensKept
<1> QED
  BY <1>1, <1>2

\* Request r goes on, without calls for issuers or for all its identities.
LEMMA NamesGoOn ==
    ASSUME TypeOK, Control, Names, NEW r \in Requests, NEW q, NEW C,
           req' = [req EXCEPT ![r] = q], calls' = [calls EXCEPT ![r] = C],
           TokensKept, known \subseteq known',
           q.op = req[r].op, q.agent = req[r].agent, q.tok = req[r].tok, q.new = req[r].new,
           q.ids = Keep => req[r].ids = Keep, q.stage = "issuer" => req[r].stage = "issuer",
           \A c \in C : c \in calls[r] \/ c.do \notin {"checkIssuer", "deleteIssuer", "dropAllIds"}
    PROVE  Names'
<1>1. q.op # "none" => q.agent \in known'
  BY DEF Names
<1>2. q.op = "resolve" => q.tok \in Issued' /\ tokens'[q.tok].agent = q.agent
  <2>1. q.op = "resolve" => q.tok \in Issued /\ tokens[q.tok].agent = q.agent
    BY DEF Names
  <2> QED
    BY <2>1 DEF TokensKept
<1>3. ASSUME NEW i \in Cli, With("checkIssuer", {i}) \in C \/ With("deleteIssuer", {i}) \in C
      PROVE  \E n \in Issued' : tokens'[n] = [agent |-> q.agent, cli |-> i]
  <2>1. With("checkIssuer", {i}) \in calls[r] \/ With("deleteIssuer", {i}) \in calls[r]
    BY <1>3, Made
  <2>2. PICK n \in Issued : tokens[n] = [agent |-> req[r].agent, cli |-> i]
    BY <2>1 DEF Names
  <2> QED
    BY <2>2 DEF TokensKept
<1>4. \A c \in C : c.do = "dropAllIds" => q.ids # Keep
  BY DEF Names
<1>5. q.op = "resolve" /\ q.stage = "issuer" => q.new \in Cli
  BY DEF Names
<1> QED
  BY <1>1, <1>2, <1>3, <1>4, <1>5, NamesStep

\* The same, with a call that has succeeded or was refused.
LEMMA NamesSucceed ==
    ASSUME TypeOK, Control, Names, NEW r \in Requests, NEW c \in calls[r], NEW more,
           Succeed(r, c, more), UNCHANGED req, TokensKept,
           \A m \in more : m.do \notin {"checkIssuer", "deleteIssuer", "dropAllIds"}
    PROVE  Names'
<1> DEFINE C == (calls[r] \ {c}) \cup more
<1>1. req' = [req EXCEPT ![r] = req[r]] /\ calls' = [calls EXCEPT ![r] = C] /\ known' = known
  BY DEF TypeOK, Succeed, others
<1>2. \A d \in C : d \in calls[r] \/ d.do \notin {"checkIssuer", "deleteIssuer", "dropAllIds"}
  OBVIOUS
<1> HIDE DEF C
<1> QED
  BY <1>1, <1>2, NamesGoOn

LEMMA NamesRefuse ==
    ASSUME TypeOK, Control, Names, NEW r \in Requests, NEW c \in calls[r], Refuse(r, c), TokensKept
    PROVE  Names'
<1> DEFINE f == [req[r] EXCEPT !.failed = TRUE]
           u == c.do \in {"claim", "putAccess"} /\ req[r].op = "add" /\ ~req[r].failed
           C == (calls[r] \ {c}) \cup (IF u THEN {Do("undoRow")} ELSE {})
<1>1. req' = [req EXCEPT ![r] = f] /\ calls' = [calls EXCEPT ![r] = C] /\ known' = known
  BY DEF TypeOK, Refuse, others
<1>2. \A d \in C : d \in calls[r] \/ d.do \notin {"checkIssuer", "deleteIssuer", "dropAllIds"}
  BY Made DEF Plain
<1>3. /\ f.op = req[r].op /\ f.agent = req[r].agent /\ f.tok = req[r].tok /\ f.new = req[r].new
      /\ f.ids = req[r].ids /\ f.stage = req[r].stage
  BY Failed DEF TypeOK
<1> HIDE DEF C, f
<1> QED
  BY <1>1, <1>2, <1>3, NamesGoOn

LEMMA NamesArrives ==
    ASSUME TypeOK, Control, Names, InTurn, NEW r \in Requests, NEW q \in Request, Arrives(r, q)
    PROVE  Names'
<1>1. PICK C \in {{Do("insertRow")}, UpdateCalls, {Do("deleteRow"), Do("listIds")}, {Do("checkRow")},
                  {Do("readToken")}} : Begin(r, q, C)
  BY DEF Arrives
<1>2. /\ req' = [req EXCEPT ![r] = q] /\ calls' = [calls EXCEPT ![r] = C] /\ UNCHANGED initTable
  BY <1>1 DEF Begin
<1>3. TokensKept /\ Issued' = Issued /\ tokens' = tokens
  BY <1>2, SameTokens DEF initTable, Issued
<1>4. known \subseteq known' /\ q.agent \in known'
  BY DEF Arrives, InTurn
<1>5. q.op = "resolve" => q.tok \in Issued' /\ tokens'[q.tok].agent = q.agent
  BY <1>3 DEF Arrives
<1>6. \A c \in C : c.do \notin {"checkIssuer", "deleteIssuer", "dropAllIds"}
  BY Made DEF Plain, UpdateCalls
<1>7. \A i \in Cli : With("checkIssuer", {i}) \notin C /\ With("deleteIssuer", {i}) \notin C
  BY <1>6, Made
<1>8. ~(q.op = "resolve" /\ q.stage = "issuer")
  BY DEF Arrives
<1> QED
  BY <1>2, <1>3, <1>4, <1>5, <1>6, <1>7, <1>8, NamesStep

\* Calls that ask for no issuer and do not drop all identities.
Harmless(C) == \A c \in C : c.do \notin {"checkIssuer", "deleteIssuer", "dropAllIds"}

LEMMA NamesOnRow ==
    ASSUME TypeOK, Control, Names, NEW r \in Requests, NEW what, NEW exists \in BOOLEAN, NEW STATE new, NEW STATE more,
           OnRow(r, what, exists, new, more),
           Harmless(more)
    PROVE  Names'
<1> PICK c \in calls[r] :
        /\ c.do = what
        /\ IF exists => req[r].agent \in row
           THEN row' = new /\ Succeed(r, c, more) /\ UNCHANGED req
           ELSE Refuse(r, c) /\ UNCHANGED <<row, faults>>
        /\ UNCHANGED <<owner, access, issuers, initTable>>
  BY DEF OnRow
<1>1. TokensKept
  BY SameTokens
<1>2. CASE exists => req[r].agent \in row
  BY <1>1, <1>2, NamesSucceed DEF Harmless
<1>3. CASE ~(exists => req[r].agent \in row)
  BY <1>1, <1>3, NamesRefuse
<1> QED
  BY <1>2, <1>3

LEMMA NamesRow ==
    ASSUME TypeOK, Control, Names, NEW r \in Requests,
           \/ InsertRow(r) \/ UndoRow(r) \/ UpdateRow(r) \/ DeleteRow(r) \/ CheckRow(r) \/ GetRow(r)
    PROVE  Names'
<1>1. CASE InsertRow(r)
  <2>1. OnRow(r, "insertRow", FALSE, row \cup {req[r].agent}, AfterInsert(req[r]))
    BY <1>1 DEF InsertRow, AfterInsert
  <2>2. Harmless(AfterInsert(req[r]))
    <3> SUFFICES ASSUME NEW m \in AfterInsert(req[r])
                 PROVE  m.do \in {"claim", "putAccess"}
      BY DEF Harmless
    <3>1. CASE m = With("putAccess", req[r].acc)
      BY <3>1, Made
    <3>2. CASE \E i \in req[r].ids : m = With("claim", {i})
      BY <3>2, Made
    <3> QED
      BY <3>1, <3>2 DEF AfterInsert
  <2> QED
    BY <2>1, <2>2, NamesOnRow
<1>2. CASE UndoRow(r)
  <2>1. OnRow(r, "undoRow", TRUE, row \ {req[r].agent}, {})
    BY <1>2 DEF UndoRow
  <2>2. Harmless({})
    BY DEF Harmless
  <2> QED
    BY <2>1, <2>2, NamesOnRow
<1>3. CASE UpdateRow(r)
  <2>1. OnRow(r, "updateRow", TRUE, row, {})
    BY <1>3 DEF UpdateRow
  <2>2. Harmless({})
    BY DEF Harmless
  <2> QED
    BY <2>1, <2>2, NamesOnRow
<1>4. CASE DeleteRow(r)
  <2>1. OnRow(r, "deleteRow", TRUE, row \ {req[r].agent}, {})
    BY <1>4 DEF DeleteRow
  <2>2. Harmless({})
    BY DEF Harmless
  <2> QED
    BY <2>1, <2>2, NamesOnRow
<1>5. CASE CheckRow(r)
  <2>1. OnRow(r, "checkRow", TRUE, row, {Do("putToken")})
    BY <1>5 DEF CheckRow
  <2>2. Harmless({Do("putToken")})
    BY Made DEF Plain, Harmless
  <2> QED
    BY <2>1, <2>2, NamesOnRow
<1>6. CASE GetRow(r)
  <2>1. OnRow(r, "getRow", TRUE, row, {})
    BY <1>6 DEF GetRow
  <2>2. Harmless({})
    BY DEF Harmless
  <2> QED
    BY <2>1, <2>2, NamesOnRow
<1> QED
  BY <1>1, <1>2, <1>3, <1>4, <1>5, <1>6

\* The issuers that a deletion asks about belong to tokens of its agent.
LEMMA NamesAfterDrop ==
    ASSUME TypeOK, Control, Names, NEW r \in Requests, NEW c \in calls[r], NEW q, NEW listed,
           req' = [req EXCEPT ![r] = q], q.op = req[r].op, q.agent = req[r].agent, q.tok = req[r].tok,
           q.new = req[r].new, q.ids = Keep => req[r].ids = Keep, q.stage = req[r].stage,
           Succeed(r, c, AfterDrop(req[r].agent, listed)), TokensKept
    PROVE  Names'
<1> DEFINE more == AfterDrop(req[r].agent, listed)
           C == (calls[r] \ {c}) \cup more
<1>1. calls' = [calls EXCEPT ![r] = C] /\ known' = known
  BY DEF Succeed, others
<1>2. \A m \in more : m = Do("listAccess") \/ \E i \in Cli : m = With("checkIssuer", {i})
  BY DEF AfterDrop
<1>3. \A i \in Cli : With("checkIssuer", {i}) \in more =>
         \E n \in Issued : tokens[n] = [agent |-> req[r].agent, cli |-> i]
  <2> TAKE i \in Cli
  <2> HAVE With("checkIssuer", {i}) \in more
  <2>1. With("checkIssuer", {i}).do = "checkIssuer" /\ With("checkIssuer", {i}).arg = {i}
    BY Made
  <2>2. With("checkIssuer", {i}) # Do("listAccess")
    BY <2>1, Made DEF Plain
  <2>3. PICK j \in listed \cap Cli : /\ \E n \in Issued : tokens[n] = [agent |-> req[r].agent, cli |-> j]
                                     /\ With("checkIssuer", {i}) = With("checkIssuer", {j})
    BY <2>2 DEF AfterDrop
  <2>4. i = j
    BY <2>1, <2>3, Made
  <2> QED
    BY <2>3, <2>4
<1>4. \A m \in more : m.do \in {"listAccess", "checkIssuer"}
  <2> TAKE m \in more
  <2>1. CASE m = Do("listAccess")
    BY <2>1, Made DEF Plain
  <2>2. CASE \E i \in Cli : m = With("checkIssuer", {i})
    BY <2>2, Made
  <2> QED
    BY <1>2, <2>1, <2>2
<1> HIDE DEF more
<1>5. ASSUME NEW i \in Cli, With("checkIssuer", {i}) \in C \/ With("deleteIssuer", {i}) \in C
      PROVE  \E n \in Issued' : tokens'[n] = [agent |-> q.agent, cli |-> i]
  <2>1. \/ With("checkIssuer", {i}) \in calls[r] \/ With("deleteIssuer", {i}) \in calls[r]
        \/ With("checkIssuer", {i}) \in more
    BY <1>4, <1>5, Made
  <2>2. PICK n \in Issued : tokens[n] = [agent |-> req[r].agent, cli |-> i]
    BY <1>3, <2>1 DEF Names
  <2> QED
    BY <2>2 DEF TokensKept
<1>6. \A d \in C : d.do = "dropAllIds" => q.ids # Keep
  BY <1>4 DEF Names
<1>7. /\ q.op # "none" => q.agent \in known'
      /\ q.op = "resolve" /\ q.stage = "issuer" => q.new \in Cli
  BY <1>1 DEF Names
<1>8. q.op = "resolve" => q.tok \in Issued' /\ tokens'[q.tok].agent = q.agent
  <2>1. q.op = "resolve" => q.tok \in Issued /\ tokens[q.tok].agent = q.agent
    BY DEF Names
  <2> QED
    BY <2>1 DEF TokensKept
<1> HIDE DEF C
<1> QED
  BY <1>1, <1>5, <1>6, <1>7, <1>8, NamesStep

LEMMA NamesReadIds ==
    ASSUME TypeOK, Control, Names, NEW r \in Requests, ReadIds(r)
    PROVE  Names'
<1> DEFINE q == req[r]
           has == IdsOf(q.agent)
<1> PICK c \in calls[r] :
        /\ \/ /\ c.do = "readIds"
              /\ Succeed(r, c, ReplaceIds(has, q.ids))
              /\ UNCHANGED req
           \/ /\ c.do = "listIds"
              /\ Succeed(r, c, IF has = {} THEN AfterDrop(q.agent, {}) ELSE {With("dropAllIds", has)})
              /\ req' = [req EXCEPT ![r].ids = has]
           \/ /\ c.do = "getIds"
              /\ Succeed(r, c, {})
              /\ req' = [req EXCEPT ![r].ids = has \cup {q.new}]
        /\ UNCHANGED <<tables, initTable>>
  BY DEF ReadIds
<1>1. TokensKept
  BY SameTokens
<1>2. has \in SUBSET Identities /\ q \in Request /\ Placed(q) /\ Fits(q, calls[r])
  BY DEF IdsOf, TypeOK, Control
<1>3. CASE c.do = "readIds" /\ Succeed(r, c, ReplaceIds(has, q.ids)) /\ UNCHANGED req
  <2>1. \A m \in ReplaceIds(has, q.ids) : m.do \notin {"checkIssuer", "deleteIssuer", "dropAllIds"}
    <3> TAKE m \in ReplaceIds(has, q.ids)
    <3>1. CASE m = With("dropIds", has \ q.ids)
      BY <3>1, Made
    <3>2. CASE \E i \in q.ids : m = With("claim", {i})
      BY <3>2, Made
    <3> QED
      BY <3>1, <3>2 DEF ReplaceIds
  <2> QED
    BY <1>1, <1>3, <2>1, NamesSucceed
<1>4. ASSUME NEW ids \in SUBSET Identities, req' = [req EXCEPT ![r].ids = ids]
      PROVE  LET f == [q EXCEPT !.ids = ids]
             IN /\ req' = [req EXCEPT ![r] = f] /\ f.op = q.op /\ f.agent = q.agent /\ f.tok = q.tok
                /\ f.new = q.new /\ f.ids = ids /\ f.ids # Keep /\ f.stage = q.stage
  <2>1. ids # Keep
    BY AgentAssumption
  <2> QED
    BY <1>2, <1>4, <2>1 DEF TypeOK, Request
<1>5. CASE /\ c.do = "listIds" /\ has = {} /\ Succeed(r, c, AfterDrop(q.agent, {}))
           /\ req' = [req EXCEPT ![r].ids = has]
  <2> DEFINE f == [q EXCEPT !.ids = has]
  <2>1. /\ req' = [req EXCEPT ![r] = f] /\ f.op = q.op /\ f.agent = q.agent /\ f.tok = q.tok
        /\ f.new = q.new /\ f.ids # Keep /\ f.stage = q.stage
    BY <1>2, <1>4, <1>5
  <2> HIDE DEF f
  <2> QED
    BY <1>1, <1>5, <2>1, NamesAfterDrop
<1>6. CASE /\ c.do = "listIds" /\ has # {} /\ Succeed(r, c, {With("dropAllIds", has)})
           /\ req' = [req EXCEPT ![r].ids = has]
  <2> DEFINE f == [q EXCEPT !.ids = has]
             C == (calls[r] \ {c}) \cup {With("dropAllIds", has)}
  <2>1. /\ req' = [req EXCEPT ![r] = f] /\ f.op = q.op /\ f.agent = q.agent /\ f.tok = q.tok
        /\ f.new = q.new /\ f.ids # Keep /\ f.stage = q.stage
    BY <1>2, <1>4, <1>6
  <2>2. calls' = [calls EXCEPT ![r] = C] /\ known' = known
    BY <1>6 DEF Succeed, others
  <2>3. q.op = "delete" /\ q.agent \in known
    BY <1>2, <1>6 DEF Fits, Allowed, Names
  <2>4. ASSUME NEW i \in Cli, With("checkIssuer", {i}) \in C \/ With("deleteIssuer", {i}) \in C
        PROVE  \E n \in Issued' : tokens'[n] = [agent |-> f.agent, cli |-> i]
    <3>1. With("checkIssuer", {i}) \in calls[r] \/ With("deleteIssuer", {i}) \in calls[r]
      BY <2>4, Made
    <3>2. PICK n \in Issued : tokens[n] = [agent |-> req[r].agent, cli |-> i]
      BY <3>1 DEF Names
    <3> QED
      BY <1>1, <2>1, <3>2 DEF TokensKept
  <2>5. ~(f.op = "resolve") /\ f.agent \in known'
    BY <2>1, <2>2, <2>3
  <2>6. \A d \in C : d.do = "dropAllIds" => f.ids # Keep
    BY <2>1
  <2>7. known \subseteq known' /\ req' = [req EXCEPT ![r] = f] /\ calls' = [calls EXCEPT ![r] = C]
    BY <2>1, <2>2
  <2> HIDE DEF C, f
  <2> QED
    BY <1>1, <2>4, <2>5, <2>6, <2>7, NamesStep
<1>7. CASE c.do = "getIds" /\ Succeed(r, c, {}) /\ req' = [req EXCEPT ![r].ids = has \cup {q.new}]
  <2> DEFINE f == [q EXCEPT !.ids = has \cup {q.new}]
             C == (calls[r] \ {c}) \cup {}
  <2>1. has \cup {q.new} \in SUBSET Identities
    BY <1>2, <1>7 DEF Fits, Allowed, Placed, Request
  <2>2. /\ req' = [req EXCEPT ![r] = f] /\ f.op = q.op /\ f.agent = q.agent /\ f.tok = q.tok
        /\ f.new = q.new /\ f.ids # Keep /\ f.stage = q.stage
    BY <1>2, <1>4, <1>7, <2>1
  <2>3. calls' = [calls EXCEPT ![r] = C] /\ known' = known /\ \A d \in C : d \in calls[r]
    BY <1>7 DEF Succeed, others
  <2> HIDE DEF C, f
  <2> QED
    BY <1>1, <2>2, <2>3, NamesGoOn
<1> QED
  BY <1>3, <1>5, <1>6, <1>7

LEMMA NamesCalls ==
    ASSUME TypeOK, Control, Names, NEW r \in Requests,
           \/ Claim(r) \/ DropId(r) \/ ReadAccess(r) \/ WriteAccess(r) \/ DeleteIssuer(r) \/ ReadToken(r) \/ Fault(r)
    PROVE  Names'
<1>1. CASE Claim(r)
  <2> PICK c \in calls[r] : \/ Succeed(r, c, {}) /\ UNCHANGED <<req, initTable>>
                            \/ Refuse(r, c) /\ UNCHANGED initTable
    BY <1>1 DEF Claim
  <2>1. TokensKept
    BY SameTokens
  <2>2. CASE Succeed(r, c, {}) /\ UNCHANGED req
    BY <2>1, <2>2, NamesSucceed
  <2>3. CASE Refuse(r, c)
    BY <2>1, <2>3, NamesRefuse
  <2> QED
    BY <2>2, <2>3
<1>2. CASE DropId(r)
  <2> PICK c \in calls[r] :
        /\ c.do \in {"dropIds", "dropAllIds"}
        /\ \E i \in c.arg :
              /\ owner' = [owner EXCEPT ![i] = None]
              /\ Succeed(r, c, IF c.arg # {i} THEN {With(c.do, c.arg \ {i})}
                               ELSE IF c.do = "dropAllIds" THEN AfterDrop(req[r].agent, req[r].ids)
                               ELSE {})
        /\ UNCHANGED <<row, access, issuers, initTable, req>>
    BY <1>2 DEF DropId
  <2> PICK i \in c.arg :
        Succeed(r, c, IF c.arg # {i} THEN {With(c.do, c.arg \ {i})}
                      ELSE IF c.do = "dropAllIds" THEN AfterDrop(req[r].agent, req[r].ids)
                      ELSE {})
    OBVIOUS
  <2>1. TokensKept /\ req' = [req EXCEPT ![r] = req[r]]
    BY SameTokens DEF TypeOK
  <2>2. CASE c.arg # {i} /\ Succeed(r, c, {With(c.do, c.arg \ {i})})
    <3> DEFINE C == (calls[r] \ {c}) \cup {With(c.do, c.arg \ {i})}
    <3>1. calls' = [calls EXCEPT ![r] = C] /\ known' = known
      BY <2>2 DEF Succeed, others
    <3>2. \A d \in C : d.do = "dropAllIds" => req[r].ids # Keep
      BY Made DEF Names
    <3>3. ASSUME NEW j \in Cli, With("checkIssuer", {j}) \in C \/ With("deleteIssuer", {j}) \in C
          PROVE  \E n \in Issued' : tokens'[n] = [agent |-> req[r].agent, cli |-> j]
      <4>1. With("checkIssuer", {j}) \in calls[r] \/ With("deleteIssuer", {j}) \in calls[r]
        BY <3>3, Made
      <4>2. PICK n \in Issued : tokens[n] = [agent |-> req[r].agent, cli |-> j]
        BY <4>1 DEF Names
      <4> QED
        BY <2>1, <4>2 DEF TokensKept
    <3>4. req[r].op \in {"update", "delete"} \/ (req[r].op = "resolve" /\ req[r].stage = "write")
      BY DEF Control, Fits, Allowed
    <3>5. /\ req[r].op # "none" => req[r].agent \in known'
          /\ req[r].op = "resolve" => req[r].tok \in Issued /\ tokens[req[r].tok].agent = req[r].agent
          /\ ~(req[r].op = "resolve" /\ req[r].stage = "issuer")
      BY <3>1, <3>4 DEF Names
    <3>6. req[r].op = "resolve" => req[r].tok \in Issued' /\ tokens'[req[r].tok].agent = req[r].agent
      BY <2>1, <3>5 DEF TokensKept
    <3> HIDE DEF C
    <3> QED
      BY <2>1, <3>1, <3>2, <3>3, <3>5, <3>6, NamesStep
  <2>3. CASE Succeed(r, c, AfterDrop(req[r].agent, req[r].ids))
    BY <2>1, <2>3, NamesAfterDrop
  <2>4. CASE Succeed(r, c, {})
    BY <2>1, <2>4, NamesSucceed
  <2> QED
    BY <2>2, <2>3, <2>4
<1>3. CASE ReadAccess(r)
  <2> PICK c \in calls[r] :
        /\ \/ /\ Succeed(r, c, ReplaceAccess(access[req[r].agent], req[r].acc))
              /\ UNCHANGED req
           \/ /\ Succeed(r, c, IF access[req[r].agent] = {} THEN {} ELSE {With("dropAccess", access[req[r].agent])})
              /\ UNCHANGED req
           \/ /\ Succeed(r, c, {})
              /\ req' = [req EXCEPT ![r].acc = IF access[req[r].agent] = {} THEN Keep ELSE access[req[r].agent]]
        /\ UNCHANGED initTable
    BY <1>3 DEF ReadAccess
  <2> DEFINE has == access[req[r].agent]
  <2>1. TokensKept
    BY SameTokens
  <2>2. CASE Succeed(r, c, ReplaceAccess(has, req[r].acc)) /\ UNCHANGED req
    <3>1. \A m \in ReplaceAccess(has, req[r].acc) : m.do \notin {"checkIssuer", "deleteIssuer", "dropAllIds"}
      <4> TAKE m \in ReplaceAccess(has, req[r].acc)
      <4>1. m.do = "putAccess" \/ m.do = "dropAccess"
        BY Made DEF ReplaceAccess
      <4> QED
        BY <4>1
    <3> QED
      BY <2>1, <2>2, <3>1, NamesSucceed
  <2>3. CASE Succeed(r, c, IF has = {} THEN {} ELSE {With("dropAccess", has)}) /\ UNCHANGED req
    <3>1. With("dropAccess", has).do = "dropAccess"
      BY Made
    <3>2. CASE has = {}
      BY <2>1, <2>3, <3>2, NamesSucceed
    <3>3. CASE has # {}
      BY <2>1, <2>3, <3>1, <3>3, NamesSucceed
    <3> QED
      BY <3>2, <3>3
  <2>4. CASE Succeed(r, c, {}) /\ req' = [req EXCEPT ![r].acc = IF has = {} THEN Keep ELSE has]
    <3> DEFINE f == [req[r] EXCEPT !.acc = IF has = {} THEN Keep ELSE has]
               C == (calls[r] \ {c}) \cup {}
    <3>1. /\ req' = [req EXCEPT ![r] = f] /\ f.op = req[r].op /\ f.agent = req[r].agent /\ f.tok = req[r].tok
          /\ f.new = req[r].new /\ f.ids = req[r].ids /\ f.stage = req[r].stage
      BY <2>4 DEF TypeOK, Request
    <3>2. calls' = [calls EXCEPT ![r] = C] /\ known \subseteq known'
      BY <2>4 DEF Succeed, others
    <3>3. \A d \in C : d \in calls[r] \/ d.do \notin {"checkIssuer", "deleteIssuer", "dropAllIds"}
      OBVIOUS
    <3>4. (f.ids = Keep => req[r].ids = Keep) /\ (f.stage = "issuer" => req[r].stage = "issuer")
      BY <3>1
    <3> HIDE DEF C, f
    <3> QED
      BY <2>1, <3>1, <3>2, <3>3, <3>4, NamesGoOn
  <2> QED
    BY <2>2, <2>3, <2>4
<1>4. CASE WriteAccess(r)
  <2> PICK c \in calls[r] :
        /\ c.do \in {"putAccess", "dropAccess"}
        /\ \E e \in c.arg : Succeed(r, c, IF c.arg = {e} THEN {} ELSE {With(c.do, c.arg \ {e})})
        /\ UNCHANGED <<initTable, req>>
    BY <1>4 DEF WriteAccess
  <2> PICK e \in c.arg : Succeed(r, c, IF c.arg = {e} THEN {} ELSE {With(c.do, c.arg \ {e})})
    OBVIOUS
  <2>1. TokensKept
    BY SameTokens
  <2>2. With(c.do, c.arg \ {e}).do \in {"putAccess", "dropAccess"}
    BY Made
  <2>3. CASE c.arg = {e}
    BY <2>1, <2>3, NamesSucceed
  <2>4. CASE c.arg # {e}
    BY <2>1, <2>2, <2>4, NamesSucceed
  <2> QED
    BY <2>3, <2>4
<1>5. CASE DeleteIssuer(r)
  <2> PICK c \in calls[r] : \/ Succeed(r, c, {}) /\ UNCHANGED <<req, initTable>>
                            \/ Refuse(r, c) /\ UNCHANGED initTable
    BY <1>5 DEF DeleteIssuer
  <2>1. TokensKept
    BY SameTokens
  <2>2. CASE Succeed(r, c, {}) /\ UNCHANGED req
    BY <2>1, <2>2, NamesSucceed
  <2>3. CASE Refuse(r, c)
    BY <2>1, <2>3, NamesRefuse
  <2> QED
    BY <2>2, <2>3
<1>6. CASE ReadToken(r)
  <2> DEFINE n == token[req[r].agent]
  <2> PICK c \in calls[r] : /\ \/ Succeed(r, c, {With("deleteToken", {n})}) /\ UNCHANGED req
                               \/ Refuse(r, c)
                            /\ UNCHANGED initTable
    BY <1>6 DEF ReadToken
  <2>1. TokensKept
    BY SameTokens
  <2>2. CASE Succeed(r, c, {With("deleteToken", {n})}) /\ UNCHANGED req
    <3>1. With("deleteToken", {n}).do = "deleteToken"
      BY Made
    <3> QED
      BY <2>1, <2>2, <3>1, NamesSucceed
  <2>3. CASE Refuse(r, c)
    BY <2>1, <2>3, NamesRefuse
  <2> QED
    BY <2>2, <2>3
<1>7. CASE Fault(r)
  <2> PICK c \in calls[r] : Refuse(r, c) /\ UNCHANGED initTable
    BY <1>7 DEF Fault
  <2>1. TokensKept
    BY SameTokens
  <2> QED
    BY <2>1, NamesRefuse
<1> QED
  BY <1>1, <1>2, <1>3, <1>4, <1>5, <1>6, <1>7

LEMMA NamesCheckIssuer ==
    ASSUME TypeOK, Control, Names, NEW r \in Requests, CheckIssuer(r)
    PROVE  Names'
<1> PICK c \in calls[r], i \in Cli :
        /\ c = With("checkIssuer", {i})
        /\ Succeed(r, c, IF owner[i] = None THEN {With("deleteIssuer", {i})} ELSE {})
        /\ UNCHANGED <<tables, initTable, req>>
  BY DEF CheckIssuer
<1>1. TokensKept /\ req' = [req EXCEPT ![r] = req[r]] /\ known' = known
  BY SameTokens DEF TypeOK, Succeed, others
<1>2. CASE owner[i] # None
  BY <1>1, <1>2, NamesSucceed
<1>3. CASE owner[i] = None
  <2> DEFINE C == (calls[r] \ {c}) \cup {With("deleteIssuer", {i})}
  <2>1. calls' = [calls EXCEPT ![r] = C]
    BY <1>3 DEF Succeed
  <2>2. ASSUME NEW j \in Cli, With("checkIssuer", {j}) \in C \/ With("deleteIssuer", {j}) \in C
        PROVE  \E n \in Issued' : tokens'[n] = [agent |-> req[r].agent, cli |-> j]
    <3>1. \/ With("checkIssuer", {j}) \in calls[r] \/ With("deleteIssuer", {j}) \in calls[r]
          \/ With("deleteIssuer", {j}) = With("deleteIssuer", {i})
          \/ With("checkIssuer", {j}) = With("deleteIssuer", {i})
      BY <2>2
    <3>2. \/ With("checkIssuer", {j}) \in calls[r] \/ With("deleteIssuer", {j}) \in calls[r]
          \/ j = i
      BY <3>1, Made
    <3>3. PICK n \in Issued : tokens[n] = [agent |-> req[r].agent, cli |-> j]
      BY <3>2 DEF Names
    <3> QED
      BY <1>1, <3>3 DEF TokensKept
  <2>3. \A d \in C : d.do = "dropAllIds" => req[r].ids # Keep
    BY Made DEF Names
  <2>4. req[r].op = "delete" /\ req[r].agent \in known
    BY Made DEF Control, Fits, Allowed, Names
  <2>5. /\ ~(req[r].op = "resolve") /\ req[r].agent \in known'
        /\ ~(req[r].op = "resolve" /\ req[r].stage = "issuer")
    BY <1>1, <2>4
  <2> HIDE DEF C
  <2> QED
    BY <1>1, <2>1, <2>2, <2>3, <2>5, NamesStep
<1> QED
  BY <1>2, <1>3

LEMMA NamesAddIssuer ==
    ASSUME TypeOK, Control, Names, NEW r \in Requests, AddIssuer(r)
    PROVE  Names'
<1> DEFINE q == req[r]
<1> PICK c \in calls[r] :
        /\ c = With("addIssuer", {q.new})
        /\ IF q.new \notin issuers
           THEN /\ req' = [req EXCEPT ![r].stage = "write"]
                /\ Succeed(r, c, UpdateCalls)
           ELSE Refuse(r, c)
        /\ UNCHANGED initTable
  BY DEF AddIssuer
<1>1. TokensKept
  BY SameTokens
<1>2. CASE q.new \notin issuers
  <2> DEFINE f == [q EXCEPT !.stage = "write"]
             C == (calls[r] \ {c}) \cup UpdateCalls
  <2>1. /\ req' = [req EXCEPT ![r] = f] /\ f.op = q.op /\ f.agent = q.agent /\ f.tok = q.tok
        /\ f.new = q.new /\ f.ids = q.ids /\ f.stage = "write"
    BY <1>2 DEF TypeOK, Request
  <2>2. calls' = [calls EXCEPT ![r] = C] /\ known' = known
    BY <1>2 DEF Succeed, others
  <2>3. \A d \in C : d \in calls[r] \/ d.do \notin {"checkIssuer", "deleteIssuer", "dropAllIds"}
    BY Made DEF UpdateCalls, Plain
  <2> HIDE DEF C, f
  <2> QED
    BY <1>1, <2>1, <2>2, <2>3, NamesGoOn
<1>3. CASE q.new \in issuers
  BY <1>1, <1>3, NamesRefuse
<1> QED
  BY <1>2, <1>3

LEMMA NamesGotAgent ==
    ASSUME TypeOK, Control, Names, NEW r \in Requests, GotAgent(r)
    PROVE  Names'
<1> DEFINE q == req[r]
<1>1. TokensKept /\ known' = known
  BY SameTokens DEF GotAgent, others
<1>2. q.op = "resolve" /\ q \in Request /\ q.agent \in known /\ q.tok \in Issued /\ tokens[q.tok].agent = q.agent
  BY DEF GotAgent, Control, Placed, TypeOK, Names
<1>3. q.tok \in Issued' /\ tokens'[q.tok].agent = q.agent
  BY <1>1, <1>2 DEF TokensKept
<1>4. CASE q.new \in Cli
  <2> DEFINE f == [q EXCEPT !.stage = "issuer"]
             C == {With("addIssuer", {q.new})}
  <2>1. /\ req' = [req EXCEPT ![r] = f] /\ f.op = q.op /\ f.agent = q.agent /\ f.tok = q.tok
        /\ f.new = q.new /\ f.ids = q.ids /\ calls' = [calls EXCEPT ![r] = C]
    BY <1>2, <1>4 DEF GotAgent, TypeOK, Request
  <2>2. \A d \in C : d.do \notin {"checkIssuer", "deleteIssuer", "dropAllIds"}
    BY Made
  <2>3. /\ \A d \in C : d.do = "dropAllIds" => f.ids # Keep
        /\ \A i \in Cli : With("checkIssuer", {i}) \in C \/ With("deleteIssuer", {i}) \in C
              => \E n \in Issued' : tokens'[n] = [agent |-> f.agent, cli |-> i]
    BY <2>2, Made
  <2>4. /\ f.op # "none" => f.agent \in known'
        /\ f.op = "resolve" => f.tok \in Issued' /\ tokens'[f.tok].agent = f.agent
        /\ f.op = "resolve" /\ f.stage = "issuer" => f.new \in Cli
    BY <1>1, <1>2, <1>3, <1>4, <2>1
  <2>5. known \subseteq known'
    BY <1>1
  <2> HIDE DEF C, f
  <2> QED
    BY <1>1, <2>1, <2>3, <2>4, <2>5, NamesStep
<1>5. CASE q.new \notin Cli
  <2> DEFINE f == [q EXCEPT !.stage = "write"]
  <2>1. /\ req' = [req EXCEPT ![r] = f] /\ f.op = q.op /\ f.agent = q.agent /\ f.tok = q.tok
        /\ f.new = q.new /\ f.ids = q.ids /\ f.stage = "write" /\ calls' = [calls EXCEPT ![r] = UpdateCalls]
    BY <1>2, <1>5 DEF GotAgent, TypeOK, Request
  <2>2. \A d \in UpdateCalls : d \in calls[r] \/ d.do \notin {"checkIssuer", "deleteIssuer", "dropAllIds"}
    BY Made DEF UpdateCalls, Plain
  <2> HIDE DEF f
  <2> QED
    BY <1>1, <2>1, <2>2, NamesGoOn
<1> QED
  BY <1>4, <1>5

LEMMA NamesPutToken ==
    ASSUME TypeOK, Control, Names, NEW r \in Requests, PutToken(r)
    PROVE  Names' /\ TokensKept
<1> PICK c \in calls[r], n \in Tokens \ Issued, cli \in {None} \cup Cli :
        /\ c.do = "putToken"
        /\ tokens' = [tokens EXCEPT ![n] = [agent |-> req[r].agent, cli |-> cli]]
        /\ Succeed(r, c, {})
        /\ UNCHANGED req
  BY DEF PutToken
<1>1. TokensKept
  <2> SUFFICES ASSUME NEW m \in Issued PROVE m \in Issued' /\ tokens'[m] = tokens[m]
    BY DEF TokensKept
  <2>1. m # n /\ m \in Tokens /\ tokens[m].agent # None
    BY DEF Issued
  <2>2. tokens'[m] = tokens[m]
    BY <2>1 DEF TypeOK
  <2> QED
    BY <2>1, <2>2 DEF Issued
<1> QED
  BY <1>1, NamesSucceed

LEMMA NamesDeleteToken ==
    ASSUME TypeOK, Control, Names, NEW r \in Requests, DeleteToken(r)
    PROVE  Names'
<1> DEFINE q == req[r]
<1> PICK c \in calls[r] :
        /\ c.do = "deleteToken"
        /\ \/ /\ req' = [req EXCEPT ![r].stage = "get"]
              /\ Succeed(r, c, {Do("getRow"), Do("getIds"), Do("getAccess")})
           \/ Refuse(r, c)
        /\ UNCHANGED tokens
  BY DEF DeleteToken
<1>1. TokensKept
  BY DEF TokensKept, Issued
<1>2. CASE /\ req' = [req EXCEPT ![r].stage = "get"]
           /\ Succeed(r, c, {Do("getRow"), Do("getIds"), Do("getAccess")})
  <2> DEFINE f == [q EXCEPT !.stage = "get"]
             C == (calls[r] \ {c}) \cup {Do("getRow"), Do("getIds"), Do("getAccess")}
  <2>1. /\ req' = [req EXCEPT ![r] = f] /\ f.op = q.op /\ f.agent = q.agent /\ f.tok = q.tok
        /\ f.new = q.new /\ f.ids = q.ids /\ f.stage = "get"
    BY <1>2 DEF TypeOK, Request
  <2>2. calls' = [calls EXCEPT ![r] = C] /\ known' = known
    BY <1>2 DEF Succeed, others
  <2>3. \A d \in C : d \in calls[r] \/ d.do \notin {"checkIssuer", "deleteIssuer", "dropAllIds"}
    BY Made DEF Plain
  <2> HIDE DEF C, f
  <2> QED
    BY <1>1, <2>1, <2>2, <2>3, NamesGoOn
<1>3. CASE Refuse(r, c)
  BY <1>1, <1>3, NamesRefuse
<1> QED
  BY <1>2, <1>3

LEMMA NamesAnswer ==
    ASSUME TypeOK, Control, Names, NEW r \in Requests, Answer(r)
    PROVE  Names'
<1> DEFINE C == {}
<1>1. /\ req' = [req EXCEPT ![r] = Idle] /\ calls' = [calls EXCEPT ![r] = C] /\ known \subseteq known'
      /\ UNCHANGED initTable
  BY DEF Answer, TypeOK
<1>2. TokensKept
  BY <1>1, SameTokens
<1>3. Idle.op = "none"
  BY DEF Idle
<1>4. /\ Idle.op # "none" => Idle.agent \in known'
      /\ Idle.op = "resolve" => Idle.tok \in Issued' /\ tokens'[Idle.tok].agent = Idle.agent
      /\ Idle.op = "resolve" /\ Idle.stage = "issuer" => Idle.new \in Cli
  BY <1>3
<1>5. /\ \A i \in Cli : With("checkIssuer", {i}) \in C \/ With("deleteIssuer", {i}) \in C
           => \E n \in Issued' : tokens'[n] = [agent |-> Idle.agent, cli |-> i]
      /\ \A d \in C : d.do = "dropAllIds" => Idle.ids # Keep
  OBVIOUS
<1> HIDE DEF C
<1> QED
  BY <1>1, <1>2, <1>4, <1>5, NamesStep

-----------------------------------------------------------------------------
(* What a step of one request leaves alone.                                *)

\* A call of request r is answered, or the request is: it touches its agent.
Touches(r) ==
    /\ req[r].op # "none" /\ known' = known
    /\ \A a \in Agents \ {req[r].agent} :
          (a \in row' <=> a \in row) /\ access'[a] = access[a] /\ said'[a] = said[a]
    /\ \A i \in Identities : owner'[i] \in {owner[i], None, req[r].agent}
    /\ broken \subseteq broken' /\ broken' \subseteq broken \cup {req[r].agent}
    /\ raced' = raced

LEMMA TouchesSucceed ==
    ASSUME TypeOK, Control, NEW r \in Requests, NEW c \in calls[r], NEW more, Succeed(r, c, more)
    PROVE  /\ req[r].op # "none" /\ UNCHANGED <<known, said, raced, broken>>
           /\ calls' = [calls EXCEPT ![r] = (calls[r] \ {c}) \cup more]
BY DEF Control, Fits, Allowed, Succeed, others, ghosts

LEMMA TouchesRefuse ==
    ASSUME TypeOK, Control, NEW r \in Requests, NEW c \in calls[r], Refuse(r, c)
    PROVE  /\ req[r].op # "none" /\ UNCHANGED <<known, said, raced>>
           /\ broken \subseteq broken' /\ broken' \subseteq broken \cup {req[r].agent}
           /\ req[r].stage \in {"issuer", "write"} => req[r].agent \in broken'
<1>1. req[r].op # "none"
  BY DEF Control, Fits, Allowed
<1>2. UNCHANGED <<known, said, raced>>
  BY DEF Refuse, others, ghosts
<1>3. broken' = IF req[r].stage \in {"issuer", "write"} THEN broken \cup {req[r].agent} ELSE broken
  BY DEF Refuse
<1> QED
  BY <1>1, <1>2, <1>3

LEMMA TouchesOnRow ==
    ASSUME TypeOK, Control, NEW r \in Requests, NEW what, NEW exists \in BOOLEAN, NEW STATE new, NEW STATE more,
           OnRow(r, what, exists, new, more),
           \A a \in Agents \ {req[r].agent} : a \in new <=> a \in row
    PROVE  Touches(r)
<1> PICK c \in calls[r] :
        /\ \/ row' = new /\ Succeed(r, c, more) /\ UNCHANGED req
           \/ Refuse(r, c) /\ UNCHANGED <<row, faults>>
        /\ UNCHANGED <<owner, access, issuers, initTable>>
  BY DEF OnRow
<1>1. CASE row' = new /\ Succeed(r, c, more)
  BY <1>1, TouchesSucceed DEF Touches
<1>2. CASE Refuse(r, c) /\ row' = row
  BY <1>2, TouchesRefuse DEF Touches
<1> QED
  BY <1>1, <1>2

LEMMA TouchesRow ==
    ASSUME TypeOK, Control, NEW r \in Requests,
           \/ InsertRow(r) \/ UndoRow(r) \/ UpdateRow(r) \/ DeleteRow(r) \/ CheckRow(r) \/ GetRow(r)
    PROVE  Touches(r)
<1> DEFINE a == req[r].agent
<1>0. /\ \A b \in Agents \ {a} : b \in row \cup {a} <=> b \in row
      /\ \A b \in Agents \ {a} : b \in row \ {a} <=> b \in row
      /\ \A b \in Agents \ {a} : b \in row <=> b \in row
  OBVIOUS
<1>1. CASE InsertRow(r)
  <2>1. OnRow(r, "insertRow", FALSE, row \cup {a}, AfterInsert(req[r]))
    BY <1>1 DEF InsertRow, AfterInsert
  <2> QED
    BY <1>0, <2>1, TouchesOnRow
<1>2. CASE UndoRow(r)
  <2>1. OnRow(r, "undoRow", TRUE, row \ {a}, {})
    BY <1>2 DEF UndoRow
  <2> QED
    BY <1>0, <2>1, TouchesOnRow
<1>3. CASE UpdateRow(r)
  <2>1. OnRow(r, "updateRow", TRUE, row, {})
    BY <1>3 DEF UpdateRow
  <2> QED
    BY <1>0, <2>1, TouchesOnRow
<1>4. CASE DeleteRow(r)
  <2>1. OnRow(r, "deleteRow", TRUE, row \ {a}, {})
    BY <1>4 DEF DeleteRow
  <2> QED
    BY <1>0, <2>1, TouchesOnRow
<1>5. CASE CheckRow(r)
  <2>1. OnRow(r, "checkRow", TRUE, row, {Do("putToken")})
    BY <1>5 DEF CheckRow
  <2> QED
    BY <1>0, <2>1, TouchesOnRow
<1>6. CASE GetRow(r)
  <2>1. OnRow(r, "getRow", TRUE, row, {})
    BY <1>6 DEF GetRow
  <2> QED
    BY <1>0, <2>1, TouchesOnRow
<1> QED
  BY <1>1, <1>2, <1>3, <1>4, <1>5, <1>6

LEMMA TouchesCalls ==
    ASSUME TypeOK, Control, Names, NEW r \in Requests,
           \/ ReadIds(r) \/ Claim(r) \/ DropId(r) \/ ReadAccess(r) \/ WriteAccess(r)
           \/ CheckIssuer(r) \/ DeleteIssuer(r) \/ AddIssuer(r)
           \/ PutToken(r) \/ ReadToken(r) \/ DeleteToken(r) \/ GotAgent(r)
           \/ Fault(r) \/ Answer(r)
    PROVE  Touches(r)
<1>1. ASSUME NEW c \in calls[r], NEW more, Succeed(r, c, more), UNCHANGED <<row, owner, access>>
      PROVE  Touches(r)
  BY <1>1, TouchesSucceed DEF Touches
<1>2. ASSUME NEW c \in calls[r], Refuse(r, c), UNCHANGED <<row, owner, access>>
      PROVE  Touches(r)
  BY <1>2, TouchesRefuse DEF Touches
<1>3. CASE ReadIds(r)
  <2> PICK c \in calls[r] : /\ \/ Succeed(r, c, ReplaceIds(IdsOf(req[r].agent), req[r].ids))
                               \/ Succeed(r, c, IF IdsOf(req[r].agent) = {} THEN AfterDrop(req[r].agent, {})
                                                ELSE {With("dropAllIds", IdsOf(req[r].agent))})
                               \/ Succeed(r, c, {})
                            /\ UNCHANGED <<row, owner, access>>
    BY <1>3 DEF ReadIds, tables
  <2> QED
    BY <1>1
<1>4. CASE Claim(r)
  <2> PICK c \in calls[r], i \in Identities :
        /\ \/ owner' = [owner EXCEPT ![i] = req[r].agent] /\ Succeed(r, c, {})
           \/ Refuse(r, c) /\ UNCHANGED owner
        /\ UNCHANGED <<row, access>>
    BY <1>4 DEF Claim
  <2>1. CASE owner' = [owner EXCEPT ![i] = req[r].agent] /\ Succeed(r, c, {})
    <3>1. \A j \in Identities : owner'[j] \in {owner[j], None, req[r].agent}
      BY <2>1 DEF TypeOK
    <3> QED
      BY <2>1, <3>1, TouchesSucceed DEF Touches
  <2> QED
    BY <1>2, <2>1
<1>5. CASE DropId(r)
  <2> PICK c \in calls[r] :
        /\ \E i \in c.arg :
              /\ owner' = [owner EXCEPT ![i] = None]
              /\ Succeed(r, c, IF c.arg # {i} THEN {With(c.do, c.arg \ {i})}
                               ELSE IF c.do = "dropAllIds" THEN AfterDrop(req[r].agent, req[r].ids)
                               ELSE {})
        /\ UNCHANGED <<row, access>>
    BY <1>5 DEF DropId
  <2> PICK i \in c.arg :
        /\ owner' = [owner EXCEPT ![i] = None]
        /\ Succeed(r, c, IF c.arg # {i} THEN {With(c.do, c.arg \ {i})}
                         ELSE IF c.do = "dropAllIds" THEN AfterDrop(req[r].agent, req[r].ids)
                         ELSE {})
    OBVIOUS
  <2>1. \A j \in Identities : owner'[j] \in {owner[j], None, req[r].agent}
    BY DEF TypeOK
  <2>2. req[r].op # "none" /\ UNCHANGED <<known, said, raced, broken>>
    BY TouchesSucceed
  <2> QED
    BY <2>1, <2>2 DEF Touches
<1>6. CASE ReadAccess(r)
  <2> PICK c \in calls[r] : /\ \/ Succeed(r, c, ReplaceAccess(access[req[r].agent], req[r].acc))
                               \/ Succeed(r, c, IF access[req[r].agent] = {} THEN {}
                                                ELSE {With("dropAccess", access[req[r].agent])})
                               \/ Succeed(r, c, {})
                            /\ UNCHANGED <<row, owner, access>>
    BY <1>6 DEF ReadAccess, tables
  <2> QED
    BY <1>1
<1>7. CASE WriteAccess(r)
  <2> PICK c \in calls[r] :
        /\ \E e \in c.arg :
              /\ access' = [access EXCEPT ![req[r].agent] =
                              IF c.do = "putAccess" THEN @ \cup {e} ELSE @ \ {e}]
              /\ Succeed(r, c, IF c.arg = {e} THEN {} ELSE {With(c.do, c.arg \ {e})})
        /\ UNCHANGED <<row, owner>>
    BY <1>7 DEF WriteAccess
  <2> PICK e \in c.arg :
        /\ access' = [access EXCEPT ![req[r].agent] = IF c.do = "putAccess" THEN @ \cup {e} ELSE @ \ {e}]
        /\ Succeed(r, c, IF c.arg = {e} THEN {} ELSE {With(c.do, c.arg \ {e})})
    OBVIOUS
  <2>1. \A a \in Agents \ {req[r].agent} : access'[a] = access[a]
    BY DEF TypeOK
  <2>2. req[r].op # "none" /\ UNCHANGED <<known, said, raced, broken>>
    BY TouchesSucceed
  <2> QED
    BY <2>1, <2>2 DEF Touches
<1>8. CASE CheckIssuer(r)
  <2> PICK c \in calls[r], i \in Cli :
        /\ Succeed(r, c, IF owner[i] = None THEN {With("deleteIssuer", {i})} ELSE {})
        /\ UNCHANGED <<row, owner, access>>
    BY <1>8 DEF CheckIssuer, tables
  <2> QED
    BY <1>1
<1>9. CASE DeleteIssuer(r)
  <2> PICK c \in calls[r] : (Succeed(r, c, {}) \/ Refuse(r, c)) /\ UNCHANGED <<row, owner, access>>
    BY <1>9 DEF DeleteIssuer
  <2> QED
    BY <1>1, <1>2
<1>10. CASE AddIssuer(r)
  <2> PICK c \in calls[r] : (Succeed(r, c, UpdateCalls) \/ Refuse(r, c)) /\ UNCHANGED <<row, owner, access>>
    BY <1>10 DEF AddIssuer
  <2> QED
    BY <1>1, <1>2
<1>11. CASE PutToken(r)
  <2> PICK c \in calls[r] : Succeed(r, c, {}) /\ UNCHANGED <<row, owner, access>>
    BY <1>11 DEF PutToken, tables
  <2> QED
    BY <1>1
<1>12. CASE ReadToken(r)
  <2> PICK c \in calls[r] : /\ Succeed(r, c, {With("deleteToken", {token[req[r].agent]})}) \/ Refuse(r, c)
                            /\ UNCHANGED <<row, owner, access>>
    BY <1>12 DEF ReadToken, tables
  <2> QED
    BY <1>1, <1>2
<1>13. CASE DeleteToken(r)
  <2> PICK c \in calls[r] : /\ Succeed(r, c, {Do("getRow"), Do("getIds"), Do("getAccess")}) \/ Refuse(r, c)
                            /\ UNCHANGED <<row, owner, access>>
    BY <1>13 DEF DeleteToken, tables
  <2> QED
    BY <1>1, <1>2
<1>14. CASE GotAgent(r)
  BY <1>14 DEF GotAgent, Control, Placed, Touches, tables, others, ghosts
<1>15. CASE Fault(r)
  <2> PICK c \in calls[r] : Refuse(r, c) /\ UNCHANGED <<row, owner, access>>
    BY <1>15 DEF Fault, tables
  <2> QED
    BY <1>2
<1>16. CASE Answer(r)
  BY <1>16 DEF Answer, Touches, TypeOK, tables
<1> QED
  BY <1>3, <1>4, <1>5, <1>6, <1>7, <1>8, <1>9, <1>10, <1>11, <1>12, <1>13, <1>14, <1>15, <1>16

-----------------------------------------------------------------------------
(* The tokens.                                                             *)

\* One step of request r.
Step(r) ==
    \/ AddAgent(r) \/ UpdateAgent(r) \/ DeleteAgent(r) \/ InitAgent(r) \/ Resolve(r)
    \/ InsertRow(r) \/ UndoRow(r) \/ UpdateRow(r) \/ DeleteRow(r) \/ CheckRow(r) \/ GetRow(r)
    \/ ReadIds(r) \/ Claim(r) \/ DropId(r) \/ ReadAccess(r) \/ WriteAccess(r)
    \/ CheckIssuer(r) \/ DeleteIssuer(r) \/ AddIssuer(r)
    \/ PutToken(r) \/ ReadToken(r) \/ DeleteToken(r) \/ GotAgent(r)
    \/ Fault(r) \/ Answer(r)

LEMMA NamesNext ==
    ASSUME TypeOK, Control, Names, InTurn, NEW r \in Requests, Step(r)
    PROVE  Names'
<1>1. CASE AddAgent(r) \/ UpdateAgent(r) \/ DeleteAgent(r) \/ InitAgent(r) \/ Resolve(r)
  BY <1>1, ArrivesIs, NamesArrives
<1>2. CASE \/ InsertRow(r) \/ UndoRow(r) \/ UpdateRow(r) \/ DeleteRow(r) \/ CheckRow(r) \/ GetRow(r)
  BY <1>2, NamesRow
<1>3. CASE ReadIds(r)
  BY <1>3, NamesReadIds
<1>4. CASE \/ Claim(r) \/ DropId(r) \/ ReadAccess(r) \/ WriteAccess(r) \/ DeleteIssuer(r) \/ ReadToken(r) \/ Fault(r)
  BY <1>4, NamesCalls
<1>5. CASE CheckIssuer(r)
  BY <1>5, NamesCheckIssuer
<1>6. CASE AddIssuer(r)
  BY <1>6, NamesAddIssuer
<1>7. CASE GotAgent(r)
  BY <1>7, NamesGotAgent
<1>8. CASE PutToken(r)
  BY <1>8, NamesPutToken
<1>9. CASE DeleteToken(r)
  BY <1>9, NamesDeleteToken
<1>10. CASE Answer(r)
  BY <1>10, NamesAnswer
<1> QED
  BY <1>1, <1>2, <1>3, <1>4, <1>5, <1>6, <1>7, <1>8, <1>9, <1>10 DEF Step

\* All steps but two leave the init table alone.
LEMMA InitTableAlone ==
    ASSUME TypeOK, Control, Names, NEW r \in Requests, Step(r)
    PROVE  known \subseteq known' /\ (PutToken(r) \/ DeleteToken(r) \/ UNCHANGED initTable)
<1>1. CASE AddAgent(r) \/ UpdateAgent(r) \/ DeleteAgent(r) \/ InitAgent(r) \/ Resolve(r)
  <2>1. PICK q \in Request : Arrives(r, q)
    BY <1>1, ArrivesIs
  <2>2. known \subseteq known'
    BY <2>1 DEF Arrives
  <2>3. UNCHANGED initTable
    BY <2>1 DEF Arrives, Begin
  <2> QED
    BY <2>2, <2>3
<1>2. CASE \/ InsertRow(r) \/ UndoRow(r) \/ UpdateRow(r) \/ DeleteRow(r) \/ CheckRow(r) \/ GetRow(r)
  <2>1. known' = known
    BY <1>2, TouchesRow DEF Touches
  <2>2. UNCHANGED initTable
    BY <1>2 DEF InsertRow, UndoRow, UpdateRow, DeleteRow, CheckRow, GetRow, OnRow
  <2> QED
    BY <2>1, <2>2
<1>3. CASE \/ ReadIds(r) \/ Claim(r) \/ DropId(r) \/ ReadAccess(r) \/ WriteAccess(r)
           \/ CheckIssuer(r) \/ DeleteIssuer(r) \/ AddIssuer(r)
           \/ PutToken(r) \/ ReadToken(r) \/ DeleteToken(r) \/ GotAgent(r)
           \/ Fault(r) \/ Answer(r)
  <2>1. known' = known
    BY <1>3, TouchesCalls DEF Touches
  <2>2. PutToken(r) \/ DeleteToken(r) \/ UNCHANGED initTable
    BY <1>3 DEF ReadIds, Claim, DropId, ReadAccess, WriteAccess, CheckIssuer, DeleteIssuer, AddIssuer,
                ReadToken, GotAgent, Fault, Answer
  <2> QED
    BY <2>1, <2>2
<1> QED
  BY <1>1, <1>2, <1>3 DEF Step

LEMMA InTurnPutToken ==
    ASSUME TypeOK, Control, Names, InTurn, TokenSingleUse, NEW r \in Requests, PutToken(r)
    PROVE  InTurn' /\ TokenSingleUse'
<1> DEFINE a == req[r].agent
<1> PICK c \in calls[r], n \in Tokens \ Issued, cli \in {None} \cup Cli :
        /\ c.do = "putToken"
        /\ \A m \in Tokens : m < n => m \in Issued
        /\ cli \notin {tokens[m].cli : m \in Issued} \ {None}
        /\ token' = [token EXCEPT ![a] = n]
        /\ tokens' = [tokens EXCEPT ![n] = [agent |-> a, cli |-> cli]]
        /\ Succeed(r, c, {})
        /\ UNCHANGED <<passed, req>>
  BY DEF PutToken
<1>1. known' = known /\ req[r].op # "none"
  BY TouchesSucceed
<1>2. a \in known /\ a \in Agents /\ a # None
  BY <1>1, AgentAssumption DEF Names, TypeOK
<1>3. /\ tokens'[n].agent = a /\ tokens'[n].cli = cli /\ n \in Tokens
      /\ \A m \in Tokens \ {n} : tokens'[m] = tokens[m]
  BY DEF TypeOK
<1>4. /\ Issued \subseteq Tokens /\ Tokens \subseteq Nat /\ n \notin Issued
      /\ \A m \in Tokens : m \in Issued' <=> m \in Issued \/ m = n
  BY <1>2, <1>3 DEF Issued, Tokens
<1>5. \A m \in Issued : m < n
  <2> SUFFICES ASSUME NEW m \in Issued, ~(m < n) PROVE FALSE
    OBVIOUS
  <2>1. m \in Nat /\ n \in Nat /\ m # n /\ m \in Tokens
    BY <1>4
  <2>2. n < m
    BY <2>1
  <2> QED
    BY <1>4, <2>1, <2>2 DEF InTurn
<1>6. token'[a] = n /\ \A b \in Agents \ {a} : token'[b] = token[b]
  BY <1>2 DEF TypeOK
<1>7. \A m, k \in Tokens : m < k /\ k \in Issued' => m \in Issued'
  BY <1>4 DEF InTurn
<1>8. \A k \in Issued' : k \in Tokens
  <2>1. Issued' = {k \in Tokens : tokens'[k].agent # None}
    BY DEF Issued, Tokens
  <2> QED
    BY <2>1
<1>9. \A k \in Issued' : tokens'[k].agent \in known'
  <2>1. \A k \in Issued : tokens[k].agent \in known
    BY DEF InTurn
  <2> QED
    BY <1>1, <1>2, <1>3, <1>4, <1>8, <2>1
<1>10. \A m, k \in Issued' : tokens'[m].cli = tokens'[k].cli => m = k \/ tokens'[m].cli = None
  <2> SUFFICES ASSUME NEW m \in Issued', NEW k \in Issued', tokens'[m].cli = tokens'[k].cli, m # k
               PROVE  tokens'[m].cli = None
    OBVIOUS
  <2>1. \A l \in Issued : tokens[l].cli = cli => cli = None
    OBVIOUS
  <2>2. (m \in Issued \/ m = n) /\ (k \in Issued \/ k = n) /\ m \in Tokens /\ k \in Tokens
    BY <1>4, <1>8
  <2>3. \A l \in Issued : tokens'[l] = tokens[l]
    BY <1>3, <1>4
  <2>4. CASE m \in Issued /\ k \in Issued
    BY <2>3, <2>4 DEF InTurn
  <2>5. CASE m = n /\ k \in Issued
    BY <1>3, <2>1, <2>3, <2>5
  <2>6. CASE k = n /\ m \in Issued
    BY <1>3, <2>1, <2>3, <2>6
  <2> QED
    BY <2>2, <2>4, <2>5, <2>6
<1>11. \A b \in Agents : token'[b] # 0 => token'[b] \in Issued' /\ tokens'[token'[b]].agent = b
  <2> TAKE b \in Agents
  <2>1. CASE b = a
    BY <1>3, <1>4, <1>6, <2>1
  <2>2. CASE b # a /\ token[b] # 0
    <3>1. token[b] \in Issued /\ tokens[token[b]].agent = b /\ token'[b] = token[b]
      BY <1>6, <2>2 DEF InTurn
    <3>2. token[b] # n /\ token[b] \in Tokens
      BY <1>4, <3>1
    <3> QED
      BY <1>3, <1>4, <3>1, <3>2
  <2>3. CASE b # a /\ token[b] = 0
    BY <1>6, <2>3
  <2> QED
    BY <2>1, <2>2, <2>3
<1>12. \A k \in Tokens : passed'[k] > 0 =>
          k \in Issued' /\ (token'[tokens'[k].agent] = 0 \/ token'[tokens'[k].agent] > k)
  <2> SUFFICES ASSUME NEW k \in Tokens, passed[k] > 0
               PROVE  k \in Issued' /\ (token'[tokens'[k].agent] = 0 \/ token'[tokens'[k].agent] > k)
    OBVIOUS
  <2>1. k \in Issued /\ (token[tokens[k].agent] = 0 \/ token[tokens[k].agent] > k)
    BY DEF InTurn
  <2>2. tokens'[k] = tokens[k] /\ k \in Issued' /\ k < n /\ tokens[k].agent \in Agents
    BY <1>3, <1>4, <1>5, <2>1 DEF InTurn, TypeOK
  <2>3. CASE tokens[k].agent = a
    BY <1>6, <2>2, <2>3, <1>4
  <2>4. CASE tokens[k].agent # a
    BY <1>6, <2>1, <2>2, <2>4
  <2> QED
    BY <2>3, <2>4
<1>13. InTurn'
  BY <1>7, <1>9, <1>10, <1>11, <1>12 DEF InTurn
<1>14. TokenSingleUse'
  <2> SUFFICES ASSUME NEW k \in Issued', passed[k] > 1
               PROVE  \E m \in Issued' : m > k /\ tokens'[m].agent = tokens'[k].agent
    BY DEF TokenSingleUse
  <2>1. k \in Issued
    BY <1>8 DEF InTurn, TypeOK
  <2>2. PICK m \in Issued : m > k /\ tokens[m].agent = tokens[k].agent
    BY <2>1 DEF TokenSingleUse
  <2> QED
    BY <1>3, <1>4, <2>1, <2>2
<1> QED
  BY <1>13, <1>14

LEMMA InTurnDeleteToken ==
    ASSUME TypeOK, Control, Names, InTurn, TokenSingleUse, NEW r \in Requests, DeleteToken(r)
    PROVE  InTurn' /\ TokenSingleUse'
<1> DEFINE q == req[r]
           a == q.agent
<1> PICK c \in calls[r] :
        /\ c.do = "deleteToken"
        /\ token' = [token EXCEPT ![a] = 0]
        /\ \/ token[a] # 0 /\ passed' = [passed EXCEPT ![q.tok] = @ + 1]
           \/ passed' = passed
        /\ UNCHANGED tokens
  BY DEF DeleteToken
<1>1. q.op = "resolve" /\ a \in known /\ a \in Agents
  BY DEF Control, Fits, Allowed, Names, TypeOK
<1>2. q.tok \in Issued /\ tokens[q.tok].agent = a
  BY <1>1 DEF Names
<1>3. known' = known
  BY TouchesCalls DEF Touches
<1>4. Issued' = Issued /\ Issued \subseteq Tokens /\ Tokens \subseteq Nat
  BY DEF Issued, Tokens
<1>5. \A b \in Agents : token'[b] = token[b] \/ token'[b] = 0
  BY DEF TypeOK
<1>6. token'[a] = 0
  BY <1>1 DEF TypeOK
<1>7. \A k \in Tokens : /\ passed[k] \in Nat
                        /\ \/ passed'[k] = passed[k]
                           \/ k = q.tok /\ token[a] # 0 /\ passed'[k] = passed[k] + 1
  BY DEF TypeOK
<1>8. \A k \in Issued : tokens[k].agent \in Agents
  BY DEF InTurn, TypeOK
<1>9. \A k \in Tokens : passed'[k] > 0 =>
          k \in Issued /\ (token'[tokens[k].agent] = 0 \/ token'[tokens[k].agent] > k)
  <2> SUFFICES ASSUME NEW k \in Tokens, passed'[k] > 0
               PROVE  k \in Issued /\ (token'[tokens[k].agent] = 0 \/ token'[tokens[k].agent] > k)
    OBVIOUS
  <2>1. CASE k = q.tok
    BY <1>2, <1>6, <2>1
  <2>2. CASE passed'[k] = passed[k]
    <3>1. k \in Issued /\ (token[tokens[k].agent] = 0 \/ token[tokens[k].agent] > k)
      BY <2>2 DEF InTurn
    <3> QED
      BY <1>5, <1>8, <3>1
  <2> QED
    BY <1>7, <2>1, <2>2
<1>10. /\ \A m, n \in Tokens : m < n /\ n \in Issued => m \in Issued
       /\ \A n \in Issued : tokens[n].agent \in known
       /\ \A m, n \in Issued : tokens[m].cli = tokens[n].cli => m = n \/ tokens[m].cli = None
  BY DEF InTurn
<1>11. \A b \in Agents : token'[b] # 0 => token'[b] \in Issued /\ tokens[token'[b]].agent = b
  BY <1>5 DEF InTurn
<1>12. InTurn'
  BY <1>3, <1>4, <1>9, <1>10, <1>11 DEF InTurn
<1>13. TokenSingleUse'
  <2> SUFFICES ASSUME NEW k \in Issued, passed'[k] > 1
               PROVE  \E m \in Issued : m > k /\ tokens[m].agent = tokens[k].agent
    BY <1>4 DEF TokenSingleUse
  <2>1. CASE passed'[k] = passed[k]
    BY <2>1 DEF TokenSingleUse
  <2>2. CASE k = q.tok /\ token[a] # 0 /\ passed'[k] = passed[k] + 1
    <3>1. passed[k] > 0
      BY <1>4, <1>7, <2>2
    <3>2. token[a] > k
      BY <1>2, <1>4, <2>2, <3>1 DEF InTurn
    <3>3. token[a] \in Issued /\ tokens[token[a]].agent = a
      BY <1>1, <2>2 DEF InTurn
    <3> QED
      BY <1>2, <2>2, <3>2, <3>3
  <2> QED
    BY <1>4, <1>7, <2>1, <2>2
<1> QED
  BY <1>12, <1>13

LEMMA InTurnNext ==
    ASSUME TypeOK, Control, Names, InTurn, TokenSingleUse, NEW r \in Requests, Step(r)
    PROVE  InTurn' /\ TokenSingleUse'
<1>1. CASE UNCHANGED initTable
  <2>1. known \subseteq known'
    BY InitTableAlone
  <2>2. Issued' = Issued /\ UNCHANGED <<token, tokens, passed>>
    BY <1>1 DEF initTable, Issued
  <2>3. InTurn'
    BY <2>1, <2>2 DEF InTurn
  <2>4. TokenSingleUse'
    BY <2>2 DEF TokenSingleUse
  <2> QED
    BY <2>3, <2>4
<1> QED
  BY <1>1, InitTableAlone, InTurnPutToken, InTurnDeleteToken

-----------------------------------------------------------------------------
(* Types and tokens.                                                       *)

CoreInv == TypeOK /\ Control /\ Names /\ InTurn /\ TokenSingleUse

LEMMA CoreInit ==
    ASSUME Init
    PROVE  CoreInv /\ Issued = {}
<1>1. Issued = {}
  BY DEF Init, Issued, NoToken, Tokens
<1>2. Idle \in Request /\ Idle.op = "none" /\ Idle.new = None /\ Idle.stage = "done"
  BY IdleRequest DEF Idle
<1>3. \A a \in Agents : said[a] \in [row : BOOLEAN, ids : SUBSET Identities, acc : SUBSET Entries]
  <2> TAKE a \in Agents
  <2>1. Nothing \in [row : BOOLEAN, ids : SUBSET Identities, acc : SUBSET Entries]
    BY DEF Nothing
  <2>2. said[a] = [Nothing EXCEPT !.row = a \in Existing] /\ (a \in Existing) \in BOOLEAN
    BY DEF Init
  <2> QED
    BY <2>1, <2>2
<1>4. said \in [Agents -> [row : BOOLEAN, ids : SUBSET Identities, acc : SUBSET Entries]]
  BY <1>3 DEF Init
<1>5. /\ token \in [Agents -> 0..MaxTokens] /\ started \in 0..MaxRequests /\ faults \in 0..MaxFaults
      /\ passed \in [Tokens -> Nat]
  BY AgentAssumption DEF Init
<1>6. tokens \in [Tokens -> [agent : Agents \cup {None}, cli : Cli \cup {None}]]
  BY DEF Init, NoToken
<1>7. /\ row \subseteq Agents /\ known \subseteq Agents /\ issuers \subseteq Cli
      /\ owner \in [Identities -> Agents \cup {None}] /\ access \in [Agents -> SUBSET Entries]
      /\ broken \subseteq Agents /\ raced \in BOOLEAN
  BY AgentAssumption DEF Init
<1>8. /\ req \in [Requests -> Request] /\ calls \in [Requests -> SUBSET Call]
      /\ \A r \in Requests : req[r] = Idle /\ calls[r] = {}
  BY <1>2 DEF Init
<1>9. TypeOK
  BY <1>4, <1>5, <1>6, <1>7, <1>8 DEF TypeOK
<1>10. Control
  BY <1>2, <1>8 DEF Control, Placed, Fits, Waits
<1>11. Names
  BY <1>2, <1>8 DEF Names
<1>12. InTurn
  <2>1. \A a \in Agents : token[a] = 0
    BY DEF Init
  <2>2. \A n \in Tokens : passed[n] = 0
    BY DEF Init
  <2> QED
    BY <1>1, <2>1, <2>2 DEF InTurn
<1>13. TokenSingleUse
  BY <1>1 DEF TokenSingleUse
<1> QED
  BY <1>1, <1>9, <1>10, <1>11, <1>12, <1>13 DEF CoreInv

LEMMA CoreStutter ==
    ASSUME CoreInv, UNCHANGED vars
    PROVE  CoreInv'
<1>1. /\ Issued' = Issued
      /\ UNCHANGED <<row, owner, access, issuers, token, tokens, passed, known, req, calls, started, faults,
                     said, broken, raced>>
  BY DEF vars, tables, initTable, ghosts, Issued, Tokens
<1>2. TypeOK'
  BY <1>1 DEF CoreInv, TypeOK
<1>3. Control'
  BY <1>1 DEF CoreInv, Control
<1>4. Names'
  BY <1>1 DEF CoreInv, Names
<1>5. InTurn' /\ TokenSingleUse'
  BY <1>1 DEF CoreInv, InTurn, TokenSingleUse
<1> QED
  BY <1>2, <1>3, <1>4, <1>5 DEF CoreInv

LEMMA CoreStep ==
    ASSUME CoreInv, NEW r \in Requests, Step(r)
    PROVE  CoreInv'
<1> USE DEF CoreInv
<1>1. TypeOK' /\ Control'
  BY NextMoves DEF Step
<1>2. Names'
  BY NamesNext
<1>3. InTurn' /\ TokenSingleUse'
  BY InTurnNext
<1> QED
  BY <1>1, <1>2, <1>3

THEOREM CoreHolds == Spec => []CoreInv
<1>1. Init => CoreInv
  BY CoreInit
<1>2. CoreInv /\ [Next]_vars => CoreInv'
  <2> SUFFICES ASSUME CoreInv, [Next]_vars PROVE CoreInv'
    OBVIOUS
  <2>1. CASE Next
    <3>1. PICK r \in Requests : Step(r)
      BY <2>1 DEF Next, Step
    <3> QED
      BY <3>1, CoreStep
  <2>2. CASE UNCHANGED vars
    BY <2>2, CoreStutter
  <2> QED
    BY <2>1, <2>2
<1> QED
  BY <1>1, <1>2, PTL DEF Spec

\* Whatever happens to the requests, the tables hold what they may hold and
\* no request has a call under way that its operation does not make.
THEOREM TypeCorrect == Spec => []TypeOK
<1>1. CoreInv => TypeOK
  BY DEF CoreInv
<1> QED
  BY <1>1, CoreHolds, PTL

\* A token lets in one request, unless a newer one of its agent has been lost:
\* the secret is read and deleted in two calls, but the token an agent has is
\* newer than any that has let in a request.
THEOREM TokensLetInOnce == Spec => []TokenSingleUse
<1>1. CoreInv => TokenSingleUse
  BY DEF CoreInv
<1> QED
  BY <1>1, CoreHolds, PTL

-----------------------------------------------------------------------------
(* What a request has written so far.                                      *)

\* The calls in C of the kinds in K, and what they are about.
Part(C, K) == {c \in C : c.do \in K}
Args(C, K) == UNION {c.arg : c \in Part(C, K)}
Claims(C) == {i \in Identities : With("claim", {i}) \in C}

IdKinds == {"insertRow", "readIds", "listIds", "claim", "dropIds", "dropAllIds"}
AccessKinds == {"insertRow", "readAccess", "listIds", "dropAllIds", "listAccess", "putAccess", "dropAccess"}
RowKinds == {"insertRow", "updateRow", "deleteRow"}
ReadKinds == {"insertRow", "getIds", "getAccess"}

Drops(C) == Args(C, {"dropIds", "dropAllIds"})

\* A request q with the calls C, for an agent that was said to be s.  The part
\* of the agent it has not got to (the identities I, the permissions X, whether
\* there is a row) is as it was said to be; of the part it has, only what it
\* has still to call for is missing.
IdsSoFar(q, C, s, I) ==
    LET t == After(q, s).ids
    IN IF q.stage # "write" \/ Part(C, {"insertRow", "readIds", "listIds"}) # {}
       THEN I = s.ids
       ELSE I = (t \ Claims(C)) \cup Drops(C) /\ Claims(C) \subseteq t /\ Drops(C) \cap t = {}

AccessSoFar(q, C, s, X) ==
    LET t == After(q, s).acc
        puts == Args(C, {"putAccess"})
        drops == Args(C, {"dropAccess"})
    IN IF \/ q.stage # "write"
          \/ Part(C, {"insertRow", "readAccess", "listIds", "dropAllIds", "listAccess"}) # {}
       THEN X = s.acc
       ELSE X = (t \ puts) \cup drops /\ puts \subseteq t /\ drops \cap t = {}

RowSoFar(q, C, s, there) ==
    there <=> IF q.stage # "write" \/ Part(C, RowKinds) # {} THEN s.row ELSE After(q, s).row

\* What a resolving request has read of its agent.
Read(q, C, s) ==
    /\ q.op = "add" /\ Part(C, {"insertRow"}) # {} => s = Nothing
    /\ q.op = "resolve" /\ q.stage # "token" =>
          /\ \/ q.stage = "get" /\ (q.failed \/ Part(C, {"getIds"}) # {})
             \/ q.ids = s.ids \cup {q.new}
          /\ \/ q.stage = "get" /\ (q.failed \/ Part(C, {"getAccess"}) # {})
             \/ q.acc \in {Keep, s.acc}

SoFar(r) ==
    LET q == req[r]
        s == said[q.agent]
    IN /\ IdsSoFar(q, calls[r], s, IdsOf(q.agent))
       /\ AccessSoFar(q, calls[r], s, access[q.agent])
       /\ RowSoFar(q, calls[r], s, q.agent \in row)
       /\ Read(q, calls[r], s)

\* No two requests write one agent, and what one is to drop is its agent's.
Apart ==
    /\ \A r, s \in Requests : Writes(req[r]) /\ Writes(req[s]) /\ req[r].agent = req[s].agent => r = s
    /\ \A r \in Requests : Writes(req[r]) => Drops(calls[r]) \subseteq IdsOf(req[r].agent)

Exact(a) == [row |-> a \in row, ids |-> IdsOf(a), acc |-> access[a]] = said[a]

InStep ==
    /\ \A r \in Requests : Writes(req[r]) /\ req[r].agent \notin broken => SoFar(r)
    /\ \A r \in Requests : req[r].failed /\ req[r].stage \in {"issuer", "write"} => req[r].agent \in broken
    /\ \A a \in Agents \ broken : ~Writing(a) => Exact(a)

-----------------------------------------------------------------------------
(* The parts of what a request has written depend on some calls only.      *)

\* The same kind, among fewer kinds.
LEMMA PartOf ==
    ASSUME NEW C, NEW D, NEW K, NEW L \in SUBSET K, Part(C, K) = Part(D, K)
    PROVE  Part(C, L) = Part(D, L) /\ Args(C, L) = Args(D, L)
<1>1. Part(C, L) = Part(Part(C, K), L) /\ Part(D, L) = Part(Part(D, K), L)
  BY DEF Part
<1> QED
  BY <1>1 DEF Args

LEMMA IdsAlone ==
    ASSUME NEW q, NEW f, NEW C, NEW D, NEW s, NEW I,
           IdsSoFar(q, C, s, I), Part(C, IdKinds) = Part(D, IdKinds),
           f.op = q.op, f.ids = q.ids, f.new = q.new,
           f.stage = q.stage \/ (f.stage # "write" /\ q.stage # "write")
    PROVE  IdsSoFar(f, D, s, I)
<1>1. After(f, s).ids = After(q, s).ids
  BY DEF After, Nothing
<1>2. /\ Part(C, {"insertRow", "readIds", "listIds"}) = Part(D, {"insertRow", "readIds", "listIds"})
      /\ Drops(C) = Drops(D)
  BY PartOf DEF IdKinds, Drops
<1>3. Claims(C) = Claims(D)
  <2>1. \A i \in Identities : With("claim", {i}) \in C <=> With("claim", {i}) \in Part(C, IdKinds)
    BY Made DEF Part, IdKinds
  <2>2. \A i \in Identities : With("claim", {i}) \in D <=> With("claim", {i}) \in Part(D, IdKinds)
    BY Made DEF Part, IdKinds
  <2> QED
    BY <2>1, <2>2 DEF Claims
<1> QED
  BY <1>1, <1>2, <1>3 DEF IdsSoFar

LEMMA AccessAlone ==
    ASSUME NEW q, NEW f, NEW C, NEW D, NEW s, NEW X,
           AccessSoFar(q, C, s, X), Part(C, AccessKinds) = Part(D, AccessKinds),
           f.op = q.op, f.acc = q.acc,
           f.stage = q.stage \/ (f.stage # "write" /\ q.stage # "write")
    PROVE  AccessSoFar(f, D, s, X)
<1>1. After(f, s).acc = After(q, s).acc
  BY DEF After, Nothing
<1>2. /\ Part(C, {"insertRow", "readAccess", "listIds", "dropAllIds", "listAccess"})
            = Part(D, {"insertRow", "readAccess", "listIds", "dropAllIds", "listAccess"})
      /\ Args(C, {"putAccess"}) = Args(D, {"putAccess"})
      /\ Args(C, {"dropAccess"}) = Args(D, {"dropAccess"})
  BY PartOf DEF AccessKinds
<1> QED
  BY <1>1, <1>2 DEF AccessSoFar

LEMMA RowAlone ==
    ASSUME NEW q, NEW f, NEW C, NEW D, NEW s, NEW there,
           RowSoFar(q, C, s, there), Part(C, RowKinds) = Part(D, RowKinds),
           f.op = q.op, f.stage = q.stage \/ (f.stage # "write" /\ q.stage # "write")
    PROVE  RowSoFar(f, D, s, there)
<1>1. After(f, s).row = After(q, s).row
  BY DEF After, Nothing
<1> QED
  BY <1>1 DEF RowSoFar

LEMMA ReadAlone ==
    ASSUME NEW q, NEW f, NEW C, NEW D, NEW s,
           Read(q, C, s), Part(C, ReadKinds) = Part(D, ReadKinds),
           f.op = q.op, f.ids = q.ids, f.acc = q.acc, f.new = q.new, f.stage = q.stage, f.failed = q.failed
    PROVE  Read(f, D, s)
<1>1. /\ Part(C, {"insertRow"}) = Part(D, {"insertRow"})
      /\ Part(C, {"getIds"}) = Part(D, {"getIds"})
      /\ Part(C, {"getAccess"}) = Part(D, {"getAccess"})
  BY PartOf DEF ReadKinds
<1> QED
  BY <1>1 DEF Read

\* A call of another kind is answered.
LEMMA IdsRest ==
    ASSUME NEW q, NEW C, NEW c, NEW more, NEW s, NEW I, IdsSoFar(q, C, s, I),
           c.do \notin IdKinds, \A m \in more : m.do \notin IdKinds
    PROVE  IdsSoFar(q, (C \ {c}) \cup more, s, I)
<1>1. Part((C \ {c}) \cup more, IdKinds) = Part(C, IdKinds)
  BY DEF Part
<1> QED
  BY <1>1, IdsAlone

LEMMA AccessRest ==
    ASSUME NEW q, NEW C, NEW c, NEW more, NEW s, NEW X, AccessSoFar(q, C, s, X),
           c.do \notin AccessKinds, \A m \in more : m.do \notin AccessKinds
    PROVE  AccessSoFar(q, (C \ {c}) \cup more, s, X)
<1>1. Part((C \ {c}) \cup more, AccessKinds) = Part(C, AccessKinds)
  BY DEF Part
<1> QED
  BY <1>1, AccessAlone

LEMMA RowRest ==
    ASSUME NEW q, NEW C, NEW c, NEW more, NEW s, NEW there, RowSoFar(q, C, s, there),
           c.do \notin RowKinds, \A m \in more : m.do \notin RowKinds
    PROVE  RowSoFar(q, (C \ {c}) \cup more, s, there)
<1>1. Part((C \ {c}) \cup more, RowKinds) = Part(C, RowKinds)
  BY DEF Part
<1> QED
  BY <1>1, RowAlone

LEMMA ReadRest ==
    ASSUME NEW q, NEW C, NEW c, NEW more, NEW s, Read(q, C, s),
           c.do \notin ReadKinds, \A m \in more : m.do \notin ReadKinds
    PROVE  Read(q, (C \ {c}) \cup more, s)
<1>1. Part((C \ {c}) \cup more, ReadKinds) = Part(C, ReadKinds)
  BY DEF Part
<1> QED
  BY <1>1, ReadAlone

-----------------------------------------------------------------------------
(* A request goes on with its agent.                                       *)

\* Request r is writing an agent of which no request has failed.
Ready(r) ==
    /\ Writes(req[r]) /\ req[r].agent \notin broken
    /\ ~(req[r].failed /\ req[r].stage \in {"issuer", "write"})
    /\ Drops(calls[r]) \subseteq IdsOf(req[r].agent)
    /\ SoFar(r)

\* The identities that agent a has after a step.
IdsThen(a) == {i \in Identities : owner'[i] = a}

\* What is to show of a step of request r, which is then q with the calls C.
LEMMA SoFarThen ==
    ASSUME NEW r \in Requests, NEW q, NEW C, req'[r] = q, calls'[r] = C, q.agent = req[r].agent, said' = said,
           IdsSoFar(q, C, said[q.agent], IdsThen(q.agent)),
           AccessSoFar(q, C, said[q.agent], access'[q.agent]),
           RowSoFar(q, C, said[q.agent], q.agent \in row'),
           Read(q, C, said[q.agent])
    PROVE  SoFar(r)'
BY DEF SoFar, IdsOf, IdsThen

\* A call that has succeeded.
LEMMA SucceedIs ==
    ASSUME CoreInv, NEW r \in Requests, NEW c \in calls[r], NEW more, Succeed(r, c, more)
    PROVE  calls'[r] = (calls[r] \ {c}) \cup more /\ said' = said /\ broken' = broken /\ raced' = raced
BY DEF Succeed, others, ghosts, CoreInv, TypeOK

\* A call that is refused, in a request that has not begun to write.
LEMMA RefusedSoFar ==
    ASSUME CoreInv, NEW r \in Requests, Ready(r), NEW c \in calls[r], Refuse(r, c),
           UNCHANGED <<row, owner, access>>, req[r].agent \notin broken'
    PROVE  SoFar(r)'
<1> DEFINE q == req[r]
           f == [q EXCEPT !.failed = TRUE]
<1>1. q \in Request /\ Placed(q) /\ said' = said
  BY DEF CoreInv, TypeOK, Control, Refuse, others, ghosts
<1>2. /\ f.op = q.op /\ f.agent = q.agent /\ f.ids = q.ids /\ f.acc = q.acc /\ f.new = q.new
      /\ f.stage = q.stage /\ f.failed /\ req'[r] = f
  BY <1>1, Failed DEF Refuse, CoreInv, TypeOK
<1>3. q.stage \notin {"issuer", "write"}
  BY DEF Refuse
<1>4. q.op = "resolve" /\ q.stage \in {"token", "get"}
  BY <1>1, <1>3 DEF Ready, Writes, Placed, Request
<1>5. IdsThen(q.agent) = IdsOf(q.agent)
  BY DEF IdsOf, IdsThen
<1> HIDE DEF f
<1>6. /\ IdsSoFar(f, calls'[r], said[f.agent], IdsThen(f.agent))
      /\ AccessSoFar(f, calls'[r], said[f.agent], access'[f.agent])
      /\ RowSoFar(f, calls'[r], said[f.agent], f.agent \in row')
  <2>1. /\ IdsSoFar(q, calls[r], said[q.agent], IdsOf(q.agent))
        /\ AccessSoFar(q, calls[r], said[q.agent], access[q.agent])
        /\ RowSoFar(q, calls[r], said[q.agent], q.agent \in row)
    BY DEF Ready, SoFar
  <2>2. IdsThen(f.agent) = IdsOf(q.agent)
    BY <1>2, <1>5
  <2> QED
    BY <1>2, <1>4, <2>1, <2>2 DEF IdsSoFar, AccessSoFar, RowSoFar
<1>7. Read(f, calls'[r], said[f.agent])
  BY <1>2, <1>4 DEF Read
<1> QED
  BY <1>1, <1>2, <1>6, <1>7, SoFarThen

\* A call that has to do with no part of the agent.
LEMMA AsideSoFar ==
    ASSUME CoreInv, NEW r \in Requests, Ready(r), NEW c \in calls[r], NEW more, Succeed(r, c, more),
           UNCHANGED <<row, owner, access, req>>,
           c.do \notin IdKinds \cup AccessKinds \cup RowKinds \cup ReadKinds,
           \A m \in more : m.do \notin IdKinds \cup AccessKinds \cup RowKinds \cup ReadKinds
    PROVE  SoFar(r)'
<1> DEFINE q == req[r]
           D == (calls[r] \ {c}) \cup more
<1>1. IdsThen(q.agent) = IdsOf(q.agent) /\ calls'[r] = D /\ said' = said
  BY SucceedIs DEF IdsOf, IdsThen
<1>2. /\ IdsSoFar(q, calls[r], said[q.agent], IdsOf(q.agent))
      /\ AccessSoFar(q, calls[r], said[q.agent], access[q.agent])
      /\ RowSoFar(q, calls[r], said[q.agent], q.agent \in row)
      /\ Read(q, calls[r], said[q.agent])
  BY DEF Ready, SoFar
<1>3. IdsSoFar(q, D, said[q.agent], IdsOf(q.agent))
  BY <1>2, IdsRest
<1>4. AccessSoFar(q, D, said[q.agent], access[q.agent])
  BY <1>2, AccessRest
<1>5. RowSoFar(q, D, said[q.agent], q.agent \in row)
  BY <1>2, RowRest
<1>6. Read(q, D, said[q.agent])
  BY <1>2, ReadRest
<1> HIDE DEF D
<1> QED
  BY <1>1, <1>3, <1>4, <1>5, <1>6, SoFarThen

LEMMA InsertRowSoFar ==
    ASSUME CoreInv, NEW r \in Requests, Ready(r), InsertRow(r)
    PROVE  SoFar(r)'
<1> DEFINE q == req[r]
           a == q.agent
           s == said[a]
           D == AfterInsert(q)
<1> PICK c \in calls[r] :
        /\ c.do = "insertRow"
        /\ row' = row \cup {a} /\ Succeed(r, c, D) /\ UNCHANGED req
        /\ UNCHANGED <<owner, access>>
  BY DEF InsertRow, OnRow, AfterInsert
<1>1. /\ q.op = "add" /\ q.ids \in SUBSET Identities /\ q.acc \in SUBSET Entries
      /\ calls[r] = {c}
  BY InsertFollows DEF CoreInv
<1>2. calls'[r] = D /\ said' = said
  <2>1. calls'[r] = (calls[r] \ {c}) \cup D /\ said' = said
    BY SucceedIs
  <2>2. (calls[r] \ {c}) \cup D = D
    BY <1>1
  <2> QED
    BY <2>1, <2>2
<1>3. q.stage = "write" /\ c \in Part(calls[r], {"insertRow"})
  BY <1>1 DEF CoreInv, Control, Placed, Part
<1>4. s = Nothing
  BY <1>1, <1>3 DEF Ready, SoFar, Read
<1>5. IdsThen(a) = {} /\ access'[a] = {}
  <2>1. c \in Part(calls[r], {"insertRow", "readIds", "listIds"})
        /\ c \in Part(calls[r], {"insertRow", "readAccess", "listIds", "dropAllIds", "listAccess"})
    BY DEF Part
  <2>2. IdsOf(a) = s.ids /\ access[a] = s.acc
    BY <2>1 DEF Ready, SoFar, IdsSoFar, AccessSoFar
  <2> QED
    BY <1>4, <2>2 DEF Nothing, IdsThen, IdsOf
<1>6. \A d \in D : \/ d.do = "claim" /\ \E i \in q.ids : d = With("claim", {i})
                   \/ d.do = "putAccess" /\ d.arg = q.acc /\ d = With("putAccess", q.acc)
  <2> TAKE d \in D
  <2>1. ASSUME NEW i \in q.ids, d = With("claim", {i}) PROVE d.do = "claim"
    BY <2>1, Made
  <2>2. d = With("putAccess", q.acc) => d.do = "putAccess" /\ d.arg = q.acc
    BY Made
  <2>3. (\E i \in q.ids : d = With("claim", {i})) \/ d = With("putAccess", q.acc)
    BY DEF AfterInsert
  <2> QED
    BY <2>1, <2>2, <2>3
<1>7. /\ Part(D, {"insertRow", "readIds", "listIds"}) = {} /\ Part(D, RowKinds) = {}
      /\ Part(D, {"insertRow", "readAccess", "listIds", "dropAllIds", "listAccess"}) = {}
      /\ Part(D, {"dropIds", "dropAllIds"}) = {} /\ Part(D, {"dropAccess"}) = {} /\ Part(D, {"insertRow"}) = {}
  BY <1>6 DEF Part, RowKinds
<1>8. Claims(D) = q.ids
  <2>1. \A i \in q.ids : With("claim", {i}) \in D
    BY DEF AfterInsert
  <2>2. ASSUME NEW i \in Identities, With("claim", {i}) \in D PROVE i \in q.ids
    <3>1. With("claim", {i}).do = "claim" /\ With("claim", {i}).arg = {i}
      BY Made
    <3>2. PICK j \in q.ids : With("claim", {i}) = With("claim", {j})
      BY <1>6, <2>2, <3>1
    <3>3. With("claim", {j}).arg = {j}
      BY Made
    <3> QED
      BY <3>1, <3>2, <3>3
  <2> QED
    BY <1>1, <2>1, <2>2 DEF Claims
<1>9. Args(D, {"putAccess"}) = q.acc
  <2>1. CASE q.acc = {}
    BY <1>6, <2>1 DEF Args, Part
  <2>2. CASE q.acc # {}
    <3>1. With("putAccess", q.acc) \in Part(D, {"putAccess"})
      BY <2>2, Made DEF AfterInsert, Part
    <3>2. \A d \in Part(D, {"putAccess"}) : d.arg = q.acc
      BY <1>6 DEF Part
    <3> QED
      BY <3>1, <3>2 DEF Args
  <2> QED
    BY <2>1, <2>2
<1>10. Drops(D) = {} /\ Args(D, {"dropAccess"}) = {}
  BY <1>7 DEF Drops, Args
<1>11. After(q, s) = [row |-> TRUE, ids |-> q.ids, acc |-> q.acc]
  BY <1>1 DEF After
<1> HIDE DEF D
<1>12. IdsSoFar(q, D, s, IdsThen(a))
  BY <1>3, <1>5, <1>7, <1>8, <1>10, <1>11 DEF IdsSoFar
<1>13. AccessSoFar(q, D, s, access'[a])
  BY <1>3, <1>5, <1>7, <1>9, <1>10, <1>11 DEF AccessSoFar
<1>14. RowSoFar(q, D, s, a \in row')
  BY <1>3, <1>7, <1>11 DEF RowSoFar
<1>15. Read(q, D, s)
  BY <1>1, <1>7 DEF Read
<1> QED
  BY <1>2, <1>12, <1>13, <1>14, <1>15, SoFarThen

\* The row is there, or not.
LEMMA RowsSoFar ==
    ASSUME CoreInv, NEW r \in Requests, Ready(r),
           UndoRow(r) \/ UpdateRow(r) \/ DeleteRow(r) \/ CheckRow(r) \/ GetRow(r),
           req[r].agent \notin broken'
    PROVE  SoFar(r)'
<1> DEFINE q == req[r]
           a == q.agent
           s == said[a]
<1>1. \E c \in calls[r] :
        /\ c.do \in {"undoRow", "updateRow", "deleteRow", "checkRow", "getRow"}
        /\ \/ /\ UNCHANGED req /\ a \in row
              /\ row' = IF c.do \in {"undoRow", "deleteRow"} THEN row \ {a} ELSE row
              /\ Succeed(r, c, IF c.do = "checkRow" THEN {Do("putToken")} ELSE {})
           \/ Refuse(r, c) /\ UNCHANGED row
        /\ UNCHANGED <<owner, access>>
  <2>1. CASE UndoRow(r)
    BY <2>1 DEF UndoRow, OnRow
  <2>2. CASE UpdateRow(r)
    BY <2>2 DEF UpdateRow, OnRow
  <2>3. CASE DeleteRow(r)
    BY <2>3 DEF DeleteRow, OnRow
  <2>4. CASE CheckRow(r)
    BY <2>4 DEF CheckRow, OnRow
  <2>5. CASE GetRow(r)
    BY <2>5 DEF GetRow, OnRow
  <2> QED
    BY <2>1, <2>2, <2>3, <2>4, <2>5
<1> PICK c \in calls[r] :
        /\ c.do \in {"undoRow", "updateRow", "deleteRow", "checkRow", "getRow"}
        /\ \/ /\ UNCHANGED req /\ a \in row
              /\ row' = IF c.do \in {"undoRow", "deleteRow"} THEN row \ {a} ELSE row
              /\ Succeed(r, c, IF c.do = "checkRow" THEN {Do("putToken")} ELSE {})
           \/ Refuse(r, c) /\ UNCHANGED row
        /\ UNCHANGED <<owner, access>>
  BY <1>1
<1>2. CASE Refuse(r, c) /\ UNCHANGED row
  BY <1>2, RefusedSoFar
<1>3. CASE /\ UNCHANGED req /\ a \in row
           /\ row' = IF c.do \in {"undoRow", "deleteRow"} THEN row \ {a} ELSE row
           /\ Succeed(r, c, IF c.do = "checkRow" THEN {Do("putToken")} ELSE {})
  <2>1. /\ q \in Request /\ Placed(q) /\ Allowed(q, c.do)
        /\ c.do = "undoRow" => q.failed
    BY DEF CoreInv, TypeOK, Control, Fits
  <2>2. c.do \in {"updateRow", "deleteRow", "getRow"}
    BY <2>1 DEF Ready, Writes, Placed, Allowed
  <2>3. /\ row' = IF c.do = "deleteRow" THEN row \ {a} ELSE row
        /\ Succeed(r, c, {})
    BY <1>3, <2>2
  <2> DEFINE D == (calls[r] \ {c}) \cup {}
  <2>4. calls'[r] = D /\ said' = said
    BY <2>3, SucceedIs
  <2>5. /\ IdsSoFar(q, calls[r], s, IdsOf(a)) /\ AccessSoFar(q, calls[r], s, access[a])
        /\ RowSoFar(q, calls[r], s, a \in row) /\ Read(q, calls[r], s)
    BY DEF Ready, SoFar
  <2>6. IdsSoFar(q, D, s, IdsThen(a))
    <3>1. c.do \notin IdKinds /\ IdsThen(a) = IdsOf(a)
      BY <2>2 DEF IdKinds, IdsThen, IdsOf
    <3> QED
      BY <2>5, <3>1, IdsRest
  <2>7. AccessSoFar(q, D, s, access'[a])
    <3>1. c.do \notin AccessKinds /\ access'[a] = access[a]
      BY <2>2 DEF AccessKinds
    <3> QED
      BY <2>5, <3>1, AccessRest
  <2>8. Read(q, D, s)
    <3>1. c.do \notin ReadKinds
      BY <2>2 DEF ReadKinds
    <3> QED
      BY <2>5, <3>1, ReadRest
  <2>9. RowSoFar(q, D, s, a \in row')
    <3>1. CASE c.do = "getRow"
      <4>1. c.do \notin RowKinds /\ row' = row
        BY <2>3, <3>1 DEF RowKinds
      <4> QED
        BY <2>5, <4>1, RowRest
    <3>2. CASE c.do \in {"updateRow", "deleteRow"}
      <4>1. q.stage = "write" /\ q.op \in {"update", "delete", "resolve"}
        BY <2>1, <3>2 DEF Allowed, Placed
      <4>2. c \in Part(calls[r], RowKinds)
        BY <3>2 DEF Part, RowKinds
      <4>3. s.row
        BY <1>3, <2>5, <4>2 DEF RowSoFar
      <4>4. Part(D, RowKinds) = {}
        <5>1. \A d \in calls[r] : d.do = c.do => d = c
          BY <3>2, OneOfAKind DEF CoreInv, Plain
        <5>2. \A d \in calls[r] : d.do \in RowKinds => d.do = c.do
          BY <2>1, <3>2, <4>1 DEF CoreInv, Control, Fits, Allowed, RowKinds
        <5> QED
          BY <5>1, <5>2 DEF Part
      <4>5. After(q, s).row <=> q.op # "delete"
        BY <4>1, <4>3 DEF After, Nothing
      <4>6. c.do = "deleteRow" <=> q.op = "delete"
        BY <2>1, <3>2 DEF Allowed
      <4> QED
        BY <1>3, <2>3, <4>1, <4>4, <4>5, <4>6 DEF RowSoFar
    <3> QED
      BY <2>2, <3>1, <3>2
  <2> HIDE DEF D
  <2> QED
    BY <1>3, <2>4, <2>6, <2>7, <2>8, <2>9, SoFarThen
<1> QED
  BY <1>2, <1>3

-----------------------------------------------------------------------------
(* The identities.                                                         *)

\* Call c is the only one in C of the kinds in K.
Sole(C, K, c) == \A d \in C : d.do \in K => d = c

\* The calls of some kinds, once the only call of these kinds has been answered.
LEMMA PartStep ==
    ASSUME NEW C, NEW c, NEW more, NEW K, Sole(C, K, c), NEW L \in SUBSET K
    PROVE  /\ Part((C \ {c}) \cup more, L) = Part(more, L)
           /\ Args((C \ {c}) \cup more, L) = Args(more, L)
BY DEF Part, Sole, Args

\* The identities to claim and to drop, once the agent's have been read.
LEMMA ReplaceIdsIs ==
    ASSUME NEW has \in SUBSET Identities, NEW ids \in SUBSET Identities
    PROVE  LET D == ReplaceIds(has, ids)
           IN /\ Claims(D) = ids \ has /\ Drops(D) = has \ ids
              /\ \A d \in D : d.do \in {"claim", "dropIds"}
<1> DEFINE D == ReplaceIds(has, ids)
           C1 == {With("claim", {i}) : i \in ids \ has}
           C2 == IF has \subseteq ids THEN {} ELSE {With("dropIds", has \ ids)}
<1>1. D = C1 \cup C2
  BY AgentAssumption DEF ReplaceIds
<1>2. \A d \in C1 : d.do = "claim" /\ \E i \in ids \ has : d.arg = {i}
  <2>1. ASSUME NEW i \in ids \ has PROVE With("claim", {i}).do = "claim" /\ With("claim", {i}).arg = {i}
    BY Made
  <2> QED
    BY <2>1
<1>3. \A d \in C2 : d.do = "dropIds" /\ d.arg = has \ ids
  BY Made
<1>4. \A i \in Identities : With("claim", {i}).do = "claim" /\ With("claim", {i}).arg = {i}
  BY Made
<1>5. Claims(D) = ids \ has
  <2>1. ASSUME NEW i \in Identities, With("claim", {i}) \in D PROVE i \in ids \ has
    <3>1. With("claim", {i}) \in C1
      BY <1>1, <1>3, <1>4, <2>1
    <3>2. \E j \in ids \ has : {i} = {j}
      BY <1>2, <1>4, <3>1
    <3> QED
      BY <3>2
  <2>2. \A i \in ids \ has : With("claim", {i}) \in D
    BY <1>1
  <2> QED
    BY <2>1, <2>2 DEF Claims
<1>6. Part(D, {"dropIds", "dropAllIds"}) = C2
  BY <1>1, <1>2, <1>3 DEF Part
<1>7. Drops(D) = has \ ids
  <2>1. UNION {d.arg : d \in C2} = has \ ids
    <3>1. CASE has \subseteq ids
      BY <3>1
    <3>2. CASE ~(has \subseteq ids)
      <4>1. C2 = {With("dropIds", has \ ids)} /\ With("dropIds", has \ ids).arg = has \ ids
        BY <3>2, Made
      <4> HIDE DEF C2
      <4> QED
        BY <4>1
    <3> QED
      BY <3>1, <3>2
  <2> HIDE DEF C2, D
  <2> QED
    BY <1>6, <2>1 DEF Drops, Args
<1>8. \A d \in D : d.do \in {"claim", "dropIds"}
  BY <1>1, <1>2, <1>3
<1> QED
  BY <1>5, <1>7, <1>8

\* Calls that neither claim nor drop.
LEMMA NoIds ==
    ASSUME NEW D, \A d \in D : d.do \notin {"claim", "dropIds", "dropAllIds"}
    PROVE  Claims(D) = {} /\ Drops(D) = {}
<1>1. \A i \in Identities : With("claim", {i}).do = "claim"
  BY Made
<1>2. Part(D, {"dropIds", "dropAllIds"}) = {}
  BY DEF Part
<1> QED
  BY <1>1, <1>2 DEF Claims, Drops, Args

LEMMA AfterDropIs ==
    ASSUME NEW a, NEW listed
    PROVE  /\ Do("listAccess") \in AfterDrop(a, listed)
           /\ \A d \in AfterDrop(a, listed) : d.do \in {"listAccess", "checkIssuer"}
<1>1. \A d \in AfterDrop(a, listed) : d = Do("listAccess") \/ \E i : d = With("checkIssuer", {i})
  BY DEF AfterDrop
<1>2. Do("listAccess").do = "listAccess" /\ \A i : With("checkIssuer", {i}).do = "checkIssuer"
  BY Made DEF Plain
<1>3. Do("listAccess") \in AfterDrop(a, listed)
  BY DEF AfterDrop
<1> QED
  BY <1>1, <1>2, <1>3

\* Call c is the only one under way about identities.
LEMMA OnlyIds ==
    ASSUME NEW C, NEW c, NEW more, Sole(C, IdKinds, c)
    PROVE  /\ Claims((C \ {c}) \cup more) = Claims(more)
           /\ Drops((C \ {c}) \cup more) = Drops(more)
           /\ Part((C \ {c}) \cup more, {"insertRow", "readIds", "listIds"})
                = Part(more, {"insertRow", "readIds", "listIds"})
<1> DEFINE D == (C \ {c}) \cup more
<1>1. Part(D, IdKinds) = Part(more, IdKinds)
  BY DEF Sole, Part
<1> HIDE DEF D
<1>2. /\ Part(D, {"insertRow", "readIds", "listIds"}) = Part(more, {"insertRow", "readIds", "listIds"})
      /\ Drops(D) = Drops(more)
  BY <1>1, PartOf DEF IdKinds, Drops
<1>3. \A i \in Identities : /\ With("claim", {i}) \in D <=> With("claim", {i}) \in Part(D, IdKinds)
                            /\ With("claim", {i}) \in more <=> With("claim", {i}) \in Part(more, IdKinds)
  BY Made DEF Part, IdKinds
<1>4. Claims(D) = Claims(more)
  BY <1>1, <1>3 DEF Claims
<1> QED
  BY <1>2, <1>4 DEF D

\* What a ready request has, and the types of it.
LEMMA ReadyIs ==
    ASSUME CoreInv, NEW r \in Requests, Ready(r)
    PROVE  LET q == req[r]
               s == said[q.agent]
           IN /\ q \in Request /\ Placed(q) /\ Fits(q, calls[r]) /\ q.agent \in Agents
              /\ IdsSoFar(q, calls[r], s, IdsOf(q.agent)) /\ AccessSoFar(q, calls[r], s, access[q.agent])
              /\ RowSoFar(q, calls[r], s, q.agent \in row) /\ Read(q, calls[r], s)
              /\ IdsOf(q.agent) \subseteq Identities /\ access[q.agent] \subseteq Entries
              /\ s \in [row : BOOLEAN, ids : SUBSET Identities, acc : SUBSET Entries]
              /\ q.op \in {"add", "update", "delete", "resolve"}
              /\ q.stage \in {"write", "issuer"} => ~q.failed
<1>1. req[r].op \in {"add", "update", "delete", "resolve"} /\ req[r] \in Request
  BY DEF Ready, Writes, CoreInv, TypeOK
<1>2. req[r].agent \in Agents
  BY <1>1 DEF CoreInv, Names, TypeOK
<1> QED
  BY <1>1, <1>2 DEF Ready, SoFar, CoreInv, TypeOK, Control, IdsOf

LEMMA ReadIdsSoFar ==
    ASSUME CoreInv, NEW r \in Requests, Ready(r), NEW c \in calls[r], c.do = "readIds",
           Succeed(r, c, ReplaceIds(IdsOf(req[r].agent), req[r].ids)),
           UNCHANGED <<req, row, owner, access>>
    PROVE  SoFar(r)'
<1> DEFINE q == req[r]
           a == q.agent
           s == said[a]
           I == IdsOf(a)
           more == ReplaceIds(I, q.ids)
           D == (calls[r] \ {c}) \cup more
<1>1. /\ q \in Request /\ Placed(q) /\ Fits(q, calls[r]) /\ IdsSoFar(q, calls[r], s, I)
      /\ AccessSoFar(q, calls[r], s, access[a]) /\ RowSoFar(q, calls[r], s, a \in row)
      /\ Read(q, calls[r], s) /\ I \subseteq Identities
  BY ReadyIs
<1>2. q.op \in {"update", "resolve"} /\ q.stage = "write"
  BY <1>1 DEF Fits, Allowed, Placed
<1>3. Sole(calls[r], IdKinds, c)
  <2>1. \A d \in calls[r] : d.do \in IdKinds => d.do = "readIds"
    BY <1>1, <1>2 DEF Fits, Allowed, Precedes, IdKinds
  <2>2. \A d \in calls[r] : d.do = "readIds" => d = c
    BY OneOfAKind DEF CoreInv, Plain
  <2> QED
    BY <2>1, <2>2 DEF Sole
<1>4. I = s.ids
  <2>1. c \in Part(calls[r], {"insertRow", "readIds", "listIds"})
    BY DEF Part
  <2> QED
    BY <1>1, <2>1 DEF IdsSoFar
<1>5. calls'[r] = D /\ said' = said
  BY SucceedIs
<1>6. IdsThen(a) = I
  BY DEF IdsThen, IdsOf
<1>7. /\ Claims(D) = Claims(more) /\ Drops(D) = Drops(more)
      /\ Part(D, {"insertRow", "readIds", "listIds"}) = Part(more, {"insertRow", "readIds", "listIds"})
  BY <1>3, OnlyIds
<1>10. IdsSoFar(q, D, s, I) /\ \A m \in more : m.do \in {"claim", "dropIds"}
  <2>1. CASE q.ids = Keep
    <3>1. more = {}
      BY <2>1 DEF ReplaceIds
    <3>2. Claims(more) = {} /\ Drops(more) = {} /\ Part(more, {"insertRow", "readIds", "listIds"}) = {}
      BY <3>1 DEF Claims, Drops, Args, Part
    <3>3. q.op = "update"
      <4>1. s.ids \cup {q.new} \in SUBSET Identities \/ q.op # "resolve"
        BY <1>1, <1>4 DEF Placed, Request
      <4>2. q.op = "resolve" => q.ids = s.ids \cup {q.new}
        BY <1>1, <1>2 DEF Read
      <4> QED
        BY <1>2, <2>1, <4>1, <4>2, AgentAssumption
    <3>4. After(q, s).ids = s.ids
      BY <2>1, <3>3 DEF After
    <3> HIDE DEF D, more
    <3>5. IdsSoFar(q, D, s, I)
      BY <1>2, <1>4, <1>7, <3>2, <3>4 DEF IdsSoFar
    <3>6. \A m \in more : m.do \in {"claim", "dropIds"}
      BY <3>1
    <3> QED
      BY <3>5, <3>6
  <2>2. CASE q.ids # Keep
    <3>1. q.ids \in SUBSET Identities
      BY <1>1, <2>2 DEF Request
    <3>2. /\ Claims(more) = q.ids \ I /\ Drops(more) = I \ q.ids
          /\ \A d \in more : d.do \in {"claim", "dropIds"}
      BY <1>1, <3>1, ReplaceIdsIs
    <3>3. Part(more, {"insertRow", "readIds", "listIds"}) = {}
      BY <3>2 DEF Part
    <3>4. After(q, s).ids = q.ids
      <4>1. CASE q.op = "update"
        BY <2>2, <4>1 DEF After
      <4>2. CASE q.op = "resolve"
        <5>1. q.ids = s.ids \cup {q.new}
          BY <1>1, <1>2, <4>2 DEF Read
        <5>2. After(q, s) = [s EXCEPT !.ids = @ \cup {q.new}]
          BY <4>2 DEF After
        <5>3. s \in [row : BOOLEAN, ids : SUBSET Identities, acc : SUBSET Entries]
          BY ReadyIs
        <5> QED
          BY <5>1, <5>2, <5>3
      <4> QED
        BY <1>2, <4>1, <4>2
    <3> HIDE DEF D, more
    <3>5. IdsSoFar(q, D, s, I)
      BY <1>2, <1>7, <3>2, <3>3, <3>4 DEF IdsSoFar
    <3> QED
      BY <3>2, <3>5
  <2> QED
    BY <2>1, <2>2
<1>11. AccessSoFar(q, D, s, access[a])
  <2>1. c.do \notin AccessKinds /\ \A m \in more : m.do \notin AccessKinds
    BY <1>10 DEF AccessKinds
  <2> HIDE DEF more
  <2> QED
    BY <1>1, <2>1, AccessRest
<1>12. RowSoFar(q, D, s, a \in row)
  <2>1. c.do \notin RowKinds /\ \A m \in more : m.do \notin RowKinds
    BY <1>10 DEF RowKinds
  <2> HIDE DEF more
  <2> QED
    BY <1>1, <2>1, RowRest
<1>13. Read(q, D, s)
  <2>1. c.do \notin ReadKinds /\ \A m \in more : m.do \notin ReadKinds
    BY <1>10 DEF ReadKinds
  <2> HIDE DEF more
  <2> QED
    BY <1>1, <2>1, ReadRest
<1> HIDE DEF D
<1> QED
  BY <1>5, <1>6, <1>10, <1>11, <1>12, <1>13, SoFarThen

LEMMA ListIdsSoFar ==
    ASSUME CoreInv, NEW r \in Requests, Ready(r), NEW c \in calls[r], c.do = "listIds",
           NEW has, has = IdsOf(req[r].agent),
           Succeed(r, c, IF has = {} THEN AfterDrop(req[r].agent, {}) ELSE {With("dropAllIds", has)}),
           req' = [req EXCEPT ![r].ids = has],
           UNCHANGED <<row, owner, access>>
    PROVE  SoFar(r)'
<1> DEFINE q == req[r]
           a == q.agent
           s == said[a]
           f == [q EXCEPT !.ids = has]
           more == IF has = {} THEN AfterDrop(a, {}) ELSE {With("dropAllIds", has)}
           D == (calls[r] \ {c}) \cup more
<1>1. /\ q \in Request /\ Placed(q) /\ Fits(q, calls[r]) /\ IdsSoFar(q, calls[r], s, has)
      /\ AccessSoFar(q, calls[r], s, access[a]) /\ RowSoFar(q, calls[r], s, a \in row)
  BY ReadyIs
<1>2. q.op = "delete" /\ q.stage = "write"
  BY <1>1 DEF Fits, Allowed, Placed
<1>3. Sole(calls[r], IdKinds, c)
  <2>1. \A d \in calls[r] : d.do \in IdKinds => d.do = "listIds"
    BY <1>1, <1>2 DEF Fits, Allowed, Precedes, IdKinds
  <2>2. \A d \in calls[r] : d.do = "listIds" => d = c
    BY OneOfAKind DEF CoreInv, Plain
  <2> QED
    BY <2>1, <2>2 DEF Sole
<1>4. has = s.ids /\ access[a] = s.acc
  <2>1. /\ c \in Part(calls[r], {"insertRow", "readIds", "listIds"})
        /\ c \in Part(calls[r], {"insertRow", "readAccess", "listIds", "dropAllIds", "listAccess"})
    BY DEF Part
  <2> QED
    BY <1>1, <2>1 DEF IdsSoFar, AccessSoFar
<1>5. /\ req'[r] = f /\ f.op = "delete" /\ f.agent = a /\ f.stage = "write" /\ f.new = q.new /\ f.acc = q.acc
      /\ calls'[r] = D /\ said' = said /\ IdsThen(a) = has
  BY <1>1, <1>2, SucceedIs DEF CoreInv, TypeOK, Request, IdsThen, IdsOf
<1>6. After(f, s) = Nothing
  BY <1>5 DEF After
<1>7. /\ Claims(D) = Claims(more) /\ Drops(D) = Drops(more)
      /\ Part(D, {"insertRow", "readIds", "listIds"}) = Part(more, {"insertRow", "readIds", "listIds"})
  BY <1>3, OnlyIds
<1>8. \A m \in more : m.do \in {"listAccess", "checkIssuer", "dropAllIds"}
  <2>1. CASE has = {}
    BY <2>1, AfterDropIs
  <2>2. CASE has # {}
    BY <2>2, Made
  <2> QED
    BY <2>1, <2>2
<1>9. \E m \in more : m.do \in {"listAccess", "dropAllIds"}
  <2>1. CASE has = {}
    BY <2>1, AfterDropIs, Made DEF Plain
  <2>2. CASE has # {}
    BY <2>2, Made
  <2> QED
    BY <2>1, <2>2
<1>10. Claims(more) = {} /\ Drops(more) = has
  <2>1. CASE has = {}
    <3>1. \A m \in more : m.do \notin {"claim", "dropIds", "dropAllIds"}
      BY <2>1, AfterDropIs
    <3> HIDE DEF more
    <3> QED
      BY <2>1, <3>1, NoIds
  <2>2. CASE has # {}
    <3>1. more = {With("dropAllIds", has)} /\ With("dropAllIds", has).do = "dropAllIds"
          /\ With("dropAllIds", has).arg = has
      BY <2>2, Made
    <3>2. Part(more, {"dropIds", "dropAllIds"}) = {With("dropAllIds", has)}
      BY <3>1 DEF Part
    <3>3. UNION {m.arg : m \in {With("dropAllIds", has)}} = has
      BY <3>1
    <3>4. \A i \in Identities : With("claim", {i}).do = "claim"
      BY Made
    <3> HIDE DEF more
    <3> QED
      BY <3>1, <3>2, <3>3, <3>4 DEF Drops, Args, Claims
  <2> QED
    BY <2>1, <2>2
<1>11. IdsSoFar(f, D, s, has)
  <2>1. Part(more, {"insertRow", "readIds", "listIds"}) = {}
    BY <1>8 DEF Part
  <2> HIDE DEF D, f, more
  <2> QED
    BY <1>5, <1>6, <1>7, <1>10, <2>1 DEF IdsSoFar, Nothing
<1>12. AccessSoFar(f, D, s, access[a])
  <2>1. Part(D, {"insertRow", "readAccess", "listIds", "dropAllIds", "listAccess"}) # {}
    BY <1>9 DEF Part
  <2> HIDE DEF D, f, more
  <2> QED
    BY <1>4, <2>1 DEF AccessSoFar
<1>13. RowSoFar(f, D, s, a \in row)
  <2>1. Part(D, RowKinds) = Part(calls[r], RowKinds)
    BY <1>8 DEF Part, RowKinds
  <2> HIDE DEF D, f, more
  <2> QED
    BY <1>1, <1>2, <1>5, <2>1, RowAlone
<1>14. Read(f, D, s)
  BY <1>5 DEF Read
<1> HIDE DEF D, f
<1> QED
  BY <1>4, <1>5, <1>11, <1>12, <1>13, <1>14, SoFarThen

LEMMA GetIdsSoFar ==
    ASSUME CoreInv, NEW r \in Requests, Ready(r), NEW c \in calls[r], c.do = "getIds",
           Succeed(r, c, {}),
           req' = [req EXCEPT ![r].ids = IdsOf(req[r].agent) \cup {req[r].new}],
           UNCHANGED <<row, owner, access>>
    PROVE  SoFar(r)'
<1> DEFINE q == req[r]
           a == q.agent
           s == said[a]
           I == IdsOf(a)
           f == [q EXCEPT !.ids = I \cup {q.new}]
           D == (calls[r] \ {c}) \cup {}
<1>1. /\ q \in Request /\ Fits(q, calls[r]) /\ IdsSoFar(q, calls[r], s, I)
      /\ AccessSoFar(q, calls[r], s, access[a]) /\ RowSoFar(q, calls[r], s, a \in row) /\ Read(q, calls[r], s)
  BY ReadyIs
<1>2. q.op = "resolve" /\ q.stage = "get"
  BY <1>1 DEF Fits, Allowed
<1>3. /\ req'[r] = f /\ f.op = q.op /\ f.agent = a /\ f.stage = "get" /\ f.new = q.new /\ f.acc = q.acc
      /\ f.failed = q.failed /\ f.ids = I \cup {q.new}
      /\ calls'[r] = D /\ said' = said /\ IdsThen(a) = I
  BY <1>1, <1>2, SucceedIs DEF CoreInv, TypeOK, Request, IdsThen, IdsOf
<1>4. I = s.ids
  BY <1>1, <1>2 DEF IdsSoFar
<1>5. Part(D, {"getAccess"}) = Part(calls[r], {"getAccess"})
  BY DEF Part
<1> HIDE DEF D, f
<1>6. IdsSoFar(f, D, s, I) /\ AccessSoFar(f, D, s, access[a]) /\ RowSoFar(f, D, s, a \in row)
  BY <1>1, <1>2, <1>3, <1>4 DEF IdsSoFar, AccessSoFar, RowSoFar
<1>7. Read(f, D, s)
  BY <1>1, <1>2, <1>3, <1>4, <1>5 DEF Read
<1> QED
  BY <1>3, <1>6, <1>7, SoFarThen

LEMMA ClaimSoFar ==
    ASSUME CoreInv, NEW r \in Requests, Ready(r), Claim(r), req[r].agent \notin broken'
    PROVE  SoFar(r)'
<1> DEFINE q == req[r]
           a == q.agent
           s == said[a]
           I == IdsOf(a)
<1> PICK c \in calls[r], i \in Identities :
        /\ c = With("claim", {i})
        /\ \/ /\ owner[i] = None /\ owner' = [owner EXCEPT ![i] = a]
              /\ Succeed(r, c, {}) /\ UNCHANGED req
           \/ Refuse(r, c) /\ UNCHANGED owner
        /\ UNCHANGED <<row, access>>
  BY DEF Claim
<1>1. CASE Refuse(r, c) /\ UNCHANGED owner
  BY <1>1, RefusedSoFar
<1>2. CASE owner[i] = None /\ owner' = [owner EXCEPT ![i] = a] /\ Succeed(r, c, {}) /\ UNCHANGED req
  <2> DEFINE D == (calls[r] \ {c}) \cup {}
  <2>1. /\ q \in Request /\ Placed(q) /\ Fits(q, calls[r]) /\ IdsSoFar(q, calls[r], s, I)
        /\ AccessSoFar(q, calls[r], s, access[a]) /\ RowSoFar(q, calls[r], s, a \in row)
        /\ Read(q, calls[r], s) /\ a \in Agents
    BY ReadyIs
  <2>2. c.do = "claim" /\ c.arg = {i}
    BY Made
  <2>3. q.op \in {"add", "update", "resolve"} /\ q.stage = "write"
    BY <2>1, <2>2 DEF Fits, Allowed, Placed
  <2>4. Part(calls[r], {"insertRow", "readIds", "listIds"}) = {}
    BY <2>1, <2>2, <2>3 DEF Fits, Allowed, Precedes, Part
  <2>5. Part(D, {"insertRow", "readIds", "listIds"}) = {}
    BY <2>4 DEF Part
  <2>6. Claims(D) = Claims(calls[r]) \ {i} /\ i \in Claims(calls[r])
    <3>1. ASSUME NEW j \in Identities PROVE With("claim", {j}) = c <=> j = i
      <4>1. With("claim", {j}).arg = {j}
        BY Made
      <4> QED
        BY <2>2, <4>1
    <3> QED
      BY <3>1 DEF Claims
  <2>7. Drops(D) = Drops(calls[r])
    <3>1. Part(D, {"dropIds", "dropAllIds"}) = Part(calls[r], {"dropIds", "dropAllIds"})
      BY <2>2 DEF Part
    <3> QED
      BY <3>1 DEF Drops, Args
  <2>8. calls'[r] = D /\ said' = said
    BY <1>2, SucceedIs
  <2>9. IdsThen(a) = I \cup {i} /\ i \notin I
    <3>1. \A j \in Identities : owner'[j] = IF j = i THEN a ELSE owner[j]
      BY <1>2 DEF CoreInv, TypeOK
    <3>2. a # None
      BY <2>1, AgentAssumption
    <3> QED
      BY <1>2, <3>1, <3>2 DEF IdsThen, IdsOf
  <2> HIDE DEF D
  <2>10. IdsSoFar(q, D, s, IdsThen(a))
    <3> DEFINE t == After(q, s).ids
               X == Claims(calls[r])
               Y == Drops(calls[r])
    <3>1. I = (t \ X) \cup Y /\ X \subseteq t /\ Y \cap t = {}
      BY <2>1, <2>3, <2>4 DEF IdsSoFar
    <3>2. I \cup {i} = (t \ (X \ {i})) \cup Y /\ X \ {i} \subseteq t
      BY <2>6, <3>1
    <3>3. IdsThen(a) = (t \ Claims(D)) \cup Drops(D) /\ Claims(D) \subseteq t /\ Drops(D) \cap t = {}
      BY <2>6, <2>7, <2>9, <3>1, <3>2
    <3> QED
      BY <2>3, <2>5, <3>3 DEF IdsSoFar
  <2>11. AccessSoFar(q, D, s, access[a])
    <3>1. c.do \notin AccessKinds
      BY <2>2 DEF AccessKinds
    <3> QED
      BY <2>1, <3>1, AccessRest DEF D
  <2>12. RowSoFar(q, D, s, a \in row)
    <3>1. c.do \notin RowKinds
      BY <2>2 DEF RowKinds
    <3> QED
      BY <2>1, <3>1, RowRest DEF D
  <2>13. Read(q, D, s)
    <3>1. c.do \notin ReadKinds
      BY <2>2 DEF ReadKinds
    <3> QED
      BY <2>1, <3>1, ReadRest DEF D
  <2> QED
    BY <1>2, <2>8, <2>10, <2>11, <2>12, <2>13, SoFarThen
<1> QED
  BY <1>1, <1>2

\* What follows the answer that identity i of batch c is gone.
AfterGone(r, c, i) ==
    IF c.arg # {i} THEN {With(c.do, c.arg \ {i})}
    ELSE IF c.do = "dropAllIds" THEN AfterDrop(req[r].agent, req[r].ids) ELSE {}

LEMMA AfterGoneIs ==
    ASSUME NEW r \in Requests, NEW c, NEW i \in c.arg, c.do \in {"dropIds", "dropAllIds"}
    PROVE  /\ \A m \in AfterGone(r, c, i) : m.do \in {c.do, "listAccess", "checkIssuer"}
           /\ c.do = "dropIds" => \A m \in AfterGone(r, c, i) : m.do = "dropIds"
           /\ c.do = "dropAllIds" => \E m \in AfterGone(r, c, i) : m.do \in {"dropAllIds", "listAccess"}
           /\ Drops(AfterGone(r, c, i)) = c.arg \ {i}
<1> DEFINE more == AfterGone(r, c, i)
<1>1. CASE c.arg # {i}
  <2> DEFINE w == With(c.do, c.arg \ {i})
  <2>1. more = {w} /\ w.do = c.do /\ w.arg = c.arg \ {i}
    BY <1>1, Made DEF AfterGone
  <2> HIDE DEF w, more
  <2>2. Part(more, {"dropIds", "dropAllIds"}) = {w}
    BY <2>1 DEF Part
  <2>3. UNION {m.arg : m \in {w}} = c.arg \ {i}
    BY <2>1
  <2> QED
    BY <2>1, <2>2, <2>3 DEF Drops, Args, more
<1>2. CASE c.arg = {i} /\ c.do = "dropAllIds"
  <2>1. more = AfterDrop(req[r].agent, req[r].ids)
    BY <1>2 DEF AfterGone
  <2> HIDE DEF more
  <2>2. /\ \A m \in more : m.do \in {"listAccess", "checkIssuer"}
        /\ \E m \in more : m.do = "listAccess"
    BY <2>1, AfterDropIs, Made DEF Plain
  <2>3. Drops(more) = {}
    BY <2>2, NoIds
  <2> QED
    BY <1>2, <2>2, <2>3 DEF more
<1>3. CASE c.arg = {i} /\ c.do = "dropIds"
  <2>1. more = {}
    BY <1>3 DEF AfterGone
  <2>2. Drops({}) = {}
    BY NoIds
  <2> QED
    BY <1>3, <2>1, <2>2
<1> QED
  BY <1>1, <1>2, <1>3

LEMMA DropIdSoFar ==
    ASSUME CoreInv, NEW r \in Requests, Ready(r), DropId(r)
    PROVE  SoFar(r)'
<1> DEFINE q == req[r]
           a == q.agent
           s == said[a]
           I == IdsOf(a)
<1> PICK c \in calls[r] :
        /\ c.do \in {"dropIds", "dropAllIds"}
        /\ \E i \in c.arg : owner' = [owner EXCEPT ![i] = None] /\ Succeed(r, c, AfterGone(r, c, i))
        /\ UNCHANGED <<row, access, req>>
  BY DEF DropId, AfterGone
<1> PICK i \in c.arg : owner' = [owner EXCEPT ![i] = None] /\ Succeed(r, c, AfterGone(r, c, i))
  OBVIOUS
<1> DEFINE more == AfterGone(r, c, i)
           D == (calls[r] \ {c}) \cup more
<1>1. /\ q \in Request /\ Placed(q) /\ Fits(q, calls[r]) /\ IdsSoFar(q, calls[r], s, I)
      /\ AccessSoFar(q, calls[r], s, access[a]) /\ RowSoFar(q, calls[r], s, a \in row)
      /\ Read(q, calls[r], s) /\ a \in Agents
  BY ReadyIs
<1>2. /\ q.op = "delete" <=> c.do = "dropAllIds"
      /\ q.op \in {"update", "delete", "resolve"} /\ q.stage = "write"
  BY <1>1 DEF Fits, Allowed, Placed
<1>3. /\ Sole(calls[r], {"dropIds", "dropAllIds"}, c)
      /\ Part(calls[r], {"insertRow", "readIds", "listIds"}) = {}
  <2>1. \A d \in calls[r] : d.do \in {"dropIds", "dropAllIds"} => d.do = c.do
    BY <1>1, <1>2 DEF Fits, Allowed
  <2>2. \A d \in calls[r] : d.do = c.do => d = c
    BY OneOfAKind DEF CoreInv, Batch
  <2>3. \A d \in calls[r] : d.do \notin {"insertRow", "readIds", "listIds"}
    BY <1>1, <1>2 DEF Fits, Allowed, Precedes
  <2> QED
    BY <2>1, <2>2, <2>3 DEF Sole, Part
<1>4. Drops(calls[r]) = c.arg
  <2>1. Part(calls[r], {"dropIds", "dropAllIds"}) = {c}
    BY <1>3 DEF Sole, Part
  <2>2. UNION {d.arg : d \in {c}} = c.arg
    OBVIOUS
  <2> QED
    BY <2>1, <2>2 DEF Drops, Args
<1>5. /\ \A m \in more : m.do \in {c.do, "listAccess", "checkIssuer"}
      /\ c.do = "dropIds" => \A m \in more : m.do = "dropIds"
      /\ c.do = "dropAllIds" => \E m \in more : m.do \in {"dropAllIds", "listAccess"}
      /\ Drops(more) = c.arg \ {i}
  BY AfterGoneIs
<1>6. calls'[r] = D /\ said' = said
  BY SucceedIs
<1>7. i \in Identities /\ IdsThen(a) = I \ {i}
  <2>1. i \in Identities
    BY <1>1 DEF Fits
  <2>2. \A j \in Identities : owner'[j] = IF j = i THEN None ELSE owner[j]
    BY <2>1 DEF CoreInv, TypeOK
  <2>3. a # None
    BY <1>1, AgentAssumption
  <2> QED
    BY <2>1, <2>2, <2>3 DEF IdsThen, IdsOf
<1> HIDE DEF more
<1>8. Drops(D) = c.arg \ {i}
  <2>1. Part(D, {"dropIds", "dropAllIds"}) = Part(more, {"dropIds", "dropAllIds"})
    BY <1>3 DEF Sole, Part
  <2> QED
    BY <1>5, <2>1 DEF Drops, Args
<1>9. Claims(D) = Claims(calls[r])
  <2>1. \A j \in Identities : With("claim", {j}).do = "claim"
    BY Made
  <2> QED
    BY <1>5, <2>1 DEF Claims
<1>10. Part(D, {"insertRow", "readIds", "listIds"}) = {}
  BY <1>3, <1>5 DEF Part
<1>11. AccessSoFar(q, D, s, access[a])
  <2>1. CASE c.do = "dropIds"
    <3>1. c.do \notin AccessKinds /\ \A m \in more : m.do \notin AccessKinds
      BY <1>5, <2>1 DEF AccessKinds
    <3> QED
      BY <1>1, <3>1, AccessRest
  <2>2. CASE c.do = "dropAllIds"
    <3>1. /\ Part(calls[r], {"insertRow", "readAccess", "listIds", "dropAllIds", "listAccess"}) # {}
          /\ Part(D, {"insertRow", "readAccess", "listIds", "dropAllIds", "listAccess"}) # {}
      BY <1>5, <2>2 DEF Part
    <3> HIDE DEF D
    <3> QED
      BY <1>1, <3>1 DEF AccessSoFar
  <2> QED
    BY <2>1, <2>2
<1>12. RowSoFar(q, D, s, a \in row)
  <2>1. c.do \notin RowKinds /\ \A m \in more : m.do \notin RowKinds
    BY <1>5 DEF RowKinds
  <2> QED
    BY <1>1, <2>1, RowRest
<1>13. Read(q, D, s)
  <2>1. c.do \notin ReadKinds /\ \A m \in more : m.do \notin ReadKinds
    BY <1>5 DEF ReadKinds
  <2> QED
    BY <1>1, <2>1, ReadRest
<1> HIDE DEF D
<1>14. IdsSoFar(q, D, s, IdsThen(a))
  <2> DEFINE t == After(q, s).ids
             X == Claims(calls[r])
  <2>1. I = (t \ X) \cup c.arg /\ X \subseteq t /\ c.arg \cap t = {}
    BY <1>1, <1>2, <1>3, <1>4 DEF IdsSoFar
  <2>2. I \ {i} = (t \ X) \cup (c.arg \ {i}) /\ (c.arg \ {i}) \cap t = {}
    BY <2>1
  <2>3. IdsThen(a) = (t \ Claims(D)) \cup Drops(D) /\ Claims(D) \subseteq t /\ Drops(D) \cap t = {}
    BY <1>7, <1>8, <1>9, <2>1, <2>2
  <2> QED
    BY <1>2, <1>10, <2>3 DEF IdsSoFar
<1> QED
  BY <1>6, <1>11, <1>12, <1>13, <1>14, SoFarThen

-----------------------------------------------------------------------------
(* The permissions.                                                        *)

\* At most one call, of kind k, about what there is in x.
One(k, x) == IF x = {} THEN {} ELSE {With(k, x)}

LEMMA KindOne ==
    ASSUME NEW k, NEW x PROVE \A d \in One(k, x) : d.do = k
BY Made DEF One

LEMMA ArgsOne ==
    ASSUME NEW k, NEW x, NEW K
    PROVE  /\ k \in K => Args(One(k, x), K) = x
           /\ k \notin K => Args(One(k, x), K) = {}
<1>1. With(k, x).do = k /\ With(k, x).arg = x
  BY Made
<1>2. CASE x = {}
  <2>1. One(k, x) = {}
    BY <1>2 DEF One
  <2> QED
    BY <1>2, <2>1 DEF Args, Part
<1>3. CASE x # {}
  <2>1. One(k, x) = {With(k, x)}
    BY <1>3 DEF One
  <2>2. Part(One(k, x), K) = IF k \in K THEN {With(k, x)} ELSE {}
    BY <1>1, <2>1 DEF Part
  <2>3. UNION {d.arg : d \in {With(k, x)}} = x
    BY <1>1
  <2> QED
    BY <1>1, <2>1, <2>2, <2>3 DEF Args
<1> QED
  BY <1>2, <1>3

LEMMA ArgsUnion ==
    ASSUME NEW C, NEW D, NEW K
    PROVE  Args(C \cup D, K) = Args(C, K) \cup Args(D, K)
BY DEF Args, Part

LEMMA ReplaceAccessIs ==
    ASSUME NEW has \in SUBSET Entries, NEW acc \in SUBSET Entries
    PROVE  /\ Args(ReplaceAccess(has, acc), {"putAccess"}) = acc \ has
           /\ Args(ReplaceAccess(has, acc), {"dropAccess"}) = has \ acc
           /\ \A d \in ReplaceAccess(has, acc) : d.do \in {"putAccess", "dropAccess"}
<1> DEFINE C1 == One("putAccess", acc \ has)
           C2 == One("dropAccess", has \ acc)
<1>1. ReplaceAccess(has, acc) = C1 \cup C2
  <2>1. (acc \subseteq has <=> acc \ has = {}) /\ (has \subseteq acc <=> has \ acc = {}) /\ acc # Keep
    BY AgentAssumption
  <2> QED
    BY <2>1 DEF ReplaceAccess, One
<1>2. /\ Args(C1, {"putAccess"}) = acc \ has /\ Args(C1, {"dropAccess"}) = {}
      /\ Args(C2, {"putAccess"}) = {} /\ Args(C2, {"dropAccess"}) = has \ acc
  <2>1. "putAccess" \notin {"dropAccess"} /\ "dropAccess" \notin {"putAccess"}
    OBVIOUS
  <2> QED
    BY <2>1, ArgsOne
<1>3. (\A d \in C1 : d.do = "putAccess") /\ (\A d \in C2 : d.do = "dropAccess")
  BY KindOne
<1> HIDE DEF C1, C2
<1>4. /\ Args(C1 \cup C2, {"putAccess"}) = acc \ has
      /\ Args(C1 \cup C2, {"dropAccess"}) = has \ acc
  <2>1. /\ Args(C1 \cup C2, {"putAccess"}) = Args(C1, {"putAccess"}) \cup Args(C2, {"putAccess"})
        /\ Args(C1 \cup C2, {"dropAccess"}) = Args(C1, {"dropAccess"}) \cup Args(C2, {"dropAccess"})
    BY ArgsUnion
  <2> QED
    BY <1>2, <2>1
<1> QED
  BY <1>1, <1>3, <1>4

\* Call c is the only one under way about permissions.
LEMMA OnlyAccess ==
    ASSUME NEW C, NEW c, NEW more, Sole(C, AccessKinds, c)
    PROVE  /\ Args((C \ {c}) \cup more, {"putAccess"}) = Args(more, {"putAccess"})
           /\ Args((C \ {c}) \cup more, {"dropAccess"}) = Args(more, {"dropAccess"})
           /\ Part((C \ {c}) \cup more, {"insertRow", "readAccess", "listIds", "dropAllIds", "listAccess"})
                = Part(more, {"insertRow", "readAccess", "listIds", "dropAllIds", "listAccess"})
<1> DEFINE D == (C \ {c}) \cup more
<1>1. Part(D, AccessKinds) = Part(more, AccessKinds)
  BY DEF Sole, Part
<1> HIDE DEF D
<1>2. /\ Part(D, {"insertRow", "readAccess", "listIds", "dropAllIds", "listAccess"})
            = Part(more, {"insertRow", "readAccess", "listIds", "dropAllIds", "listAccess"})
      /\ Args(D, {"putAccess"}) = Args(more, {"putAccess"})
      /\ Args(D, {"dropAccess"}) = Args(more, {"dropAccess"})
  BY <1>1, PartOf DEF AccessKinds
<1> QED
  BY <1>2 DEF D

LEMMA ReadAccessSoFar ==
    ASSUME CoreInv, NEW r \in Requests, Ready(r), NEW c \in calls[r], c.do = "readAccess",
           Succeed(r, c, ReplaceAccess(access[req[r].agent], req[r].acc)),
           UNCHANGED <<req, row, owner, access>>
    PROVE  SoFar(r)'
<1> DEFINE q == req[r]
           a == q.agent
           s == said[a]
           I == IdsOf(a)
           X == access[a]
           more == ReplaceAccess(X, q.acc)
           D == (calls[r] \ {c}) \cup more
<1>1. /\ q \in Request /\ Placed(q) /\ Fits(q, calls[r]) /\ IdsSoFar(q, calls[r], s, I)
      /\ AccessSoFar(q, calls[r], s, X) /\ RowSoFar(q, calls[r], s, a \in row)
      /\ Read(q, calls[r], s) /\ X \subseteq Entries
  BY ReadyIs
<1>2. q.op \in {"update", "resolve"} /\ q.stage = "write"
  BY <1>1 DEF Fits, Allowed, Placed
<1>3. Sole(calls[r], AccessKinds, c)
  <2>1. \A d \in calls[r] : d.do \in AccessKinds => d.do = "readAccess"
    BY <1>1, <1>2 DEF Fits, Allowed, Precedes, AccessKinds
  <2>2. \A d \in calls[r] : d.do = "readAccess" => d = c
    BY OneOfAKind DEF CoreInv, Plain
  <2> QED
    BY <2>1, <2>2 DEF Sole
<1>4. X = s.acc
  <2>1. c \in Part(calls[r], {"insertRow", "readAccess", "listIds", "dropAllIds", "listAccess"})
    BY DEF Part
  <2> QED
    BY <1>1, <2>1 DEF AccessSoFar
<1>5. calls'[r] = D /\ said' = said
  BY SucceedIs
<1>6. IdsThen(a) = I
  BY DEF IdsThen, IdsOf
<1>7. /\ Args(D, {"putAccess"}) = Args(more, {"putAccess"}) /\ Args(D, {"dropAccess"}) = Args(more, {"dropAccess"})
      /\ Part(D, {"insertRow", "readAccess", "listIds", "dropAllIds", "listAccess"})
           = Part(more, {"insertRow", "readAccess", "listIds", "dropAllIds", "listAccess"})
  BY <1>3, OnlyAccess
<1>8. After(q, s).acc = IF q.acc = Keep THEN X ELSE q.acc
  <2>1. CASE q.op = "update"
    BY <1>4, <2>1 DEF After
  <2>2. CASE q.op = "resolve"
    <3>1. q.acc \in {Keep, X}
      BY <1>1, <1>2, <1>4, <2>2 DEF Read
    <3>2. After(q, s).acc = s.acc
      <4>1. s \in [row : BOOLEAN, ids : SUBSET Identities, acc : SUBSET Entries]
        BY ReadyIs
      <4> QED
        BY <2>2, <4>1 DEF After
    <3> QED
      BY <1>4, <3>1, <3>2
  <2> QED
    BY <1>2, <2>1, <2>2
<1>9. AccessSoFar(q, D, s, X) /\ \A m \in more : m.do \in {"putAccess", "dropAccess"}
  <2>1. CASE q.acc = Keep
    <3>1. more = {}
      BY <2>1 DEF ReplaceAccess
    <3>2. /\ Args(more, {"putAccess"}) = {} /\ Args(more, {"dropAccess"}) = {}
          /\ Part(more, {"insertRow", "readAccess", "listIds", "dropAllIds", "listAccess"}) = {}
      BY <3>1 DEF Args, Part
    <3> HIDE DEF D, more
    <3> QED
      BY <1>2, <1>7, <1>8, <2>1, <3>1, <3>2 DEF AccessSoFar
  <2>2. CASE q.acc # Keep
    <3>1. q.acc \in SUBSET Entries
      BY <1>1, <2>2 DEF Request
    <3>2. /\ Args(more, {"putAccess"}) = q.acc \ X /\ Args(more, {"dropAccess"}) = X \ q.acc
          /\ \A d \in more : d.do \in {"putAccess", "dropAccess"}
      BY <1>1, <3>1, ReplaceAccessIs
    <3> HIDE DEF D, more
    <3>3. Part(more, {"insertRow", "readAccess", "listIds", "dropAllIds", "listAccess"}) = {}
      BY <3>2 DEF Part
    <3>4. X = (q.acc \ (q.acc \ X)) \cup (X \ q.acc)
      OBVIOUS
    <3>5. /\ X = (After(q, s).acc \ Args(D, {"putAccess"})) \cup Args(D, {"dropAccess"})
          /\ Args(D, {"putAccess"}) \subseteq After(q, s).acc
          /\ Args(D, {"dropAccess"}) \cap After(q, s).acc = {}
      BY <1>7, <1>8, <2>2, <3>2, <3>4
    <3> QED
      BY <1>2, <1>7, <3>2, <3>3, <3>5 DEF AccessSoFar
  <2> QED
    BY <2>1, <2>2
<1> HIDE DEF more
<1>10. IdsSoFar(q, D, s, I)
  <2>1. c.do \notin IdKinds /\ \A m \in more : m.do \notin IdKinds
    BY <1>9 DEF IdKinds
  <2> QED
    BY <1>1, <2>1, IdsRest
<1>11. RowSoFar(q, D, s, a \in row)
  <2>1. c.do \notin RowKinds /\ \A m \in more : m.do \notin RowKinds
    BY <1>9 DEF RowKinds
  <2> QED
    BY <1>1, <2>1, RowRest
<1>12. Read(q, D, s)
  <2>1. c.do \notin ReadKinds /\ \A m \in more : m.do \notin ReadKinds
    BY <1>9 DEF ReadKinds
  <2> QED
    BY <1>1, <2>1, ReadRest
<1> HIDE DEF D
<1> QED
  BY <1>5, <1>6, <1>9, <1>10, <1>11, <1>12, SoFarThen

LEMMA ListAccessSoFar ==
    ASSUME CoreInv, NEW r \in Requests, Ready(r), NEW c \in calls[r], c.do = "listAccess",
           Succeed(r, c, IF access[req[r].agent] = {} THEN {}
                         ELSE {With("dropAccess", access[req[r].agent])}),
           UNCHANGED <<req, row, owner, access>>
    PROVE  SoFar(r)'
<1> DEFINE q == req[r]
           a == q.agent
           s == said[a]
           I == IdsOf(a)
           X == access[a]
           more == One("dropAccess", X)
           D == (calls[r] \ {c}) \cup more
<1>1. /\ q \in Request /\ Placed(q) /\ Fits(q, calls[r]) /\ IdsSoFar(q, calls[r], s, I)
      /\ AccessSoFar(q, calls[r], s, X) /\ RowSoFar(q, calls[r], s, a \in row)
      /\ Read(q, calls[r], s) /\ X \subseteq Entries
  BY ReadyIs
<1>2. q.op = "delete" /\ q.stage = "write"
  BY <1>1 DEF Fits, Allowed, Placed
<1>3. Sole(calls[r], AccessKinds, c)
  <2>1. \A d \in calls[r] : d.do \in AccessKinds => d.do = "listAccess"
    BY <1>1, <1>2 DEF Fits, Allowed, Precedes, AccessKinds
  <2>2. \A d \in calls[r] : d.do = "listAccess" => d = c
    BY OneOfAKind DEF CoreInv, Plain
  <2> QED
    BY <2>1, <2>2 DEF Sole
<1>4. calls'[r] = D /\ said' = said
  BY SucceedIs DEF One
<1>5. IdsThen(a) = I
  BY DEF IdsThen, IdsOf
<1>6. /\ Args(D, {"putAccess"}) = Args(more, {"putAccess"}) /\ Args(D, {"dropAccess"}) = Args(more, {"dropAccess"})
      /\ Part(D, {"insertRow", "readAccess", "listIds", "dropAllIds", "listAccess"})
           = Part(more, {"insertRow", "readAccess", "listIds", "dropAllIds", "listAccess"})
  BY <1>3, OnlyAccess
<1>7. After(q, s).acc = {}
  BY <1>2 DEF After, Nothing
<1>8. \A m \in more : m.do = "dropAccess"
  BY KindOne
<1>9. Args(more, {"putAccess"}) = {} /\ Args(more, {"dropAccess"}) = X
  <2>1. "dropAccess" \notin {"putAccess"}
    OBVIOUS
  <2> QED
    BY <2>1, ArgsOne
<1> HIDE DEF more
<1>10. AccessSoFar(q, D, s, X)
  <2>1. Part(more, {"insertRow", "readAccess", "listIds", "dropAllIds", "listAccess"}) = {}
    BY <1>8 DEF Part
  <2> HIDE DEF D
  <2> QED
    BY <1>2, <1>6, <1>7, <1>9, <2>1 DEF AccessSoFar
<1>11. IdsSoFar(q, D, s, I)
  <2>1. c.do \notin IdKinds /\ \A m \in more : m.do \notin IdKinds
    BY <1>8 DEF IdKinds
  <2> QED
    BY <1>1, <2>1, IdsRest
<1>12. RowSoFar(q, D, s, a \in row)
  <2>1. c.do \notin RowKinds /\ \A m \in more : m.do \notin RowKinds
    BY <1>8 DEF RowKinds
  <2> QED
    BY <1>1, <2>1, RowRest
<1>13. Read(q, D, s)
  BY <1>2 DEF Read
<1> HIDE DEF D
<1> QED
  BY <1>4, <1>5, <1>10, <1>11, <1>12, <1>13, SoFarThen

LEMMA GetAccessSoFar ==
    ASSUME CoreInv, NEW r \in Requests, Ready(r), NEW c \in calls[r], c.do = "getAccess",
           Succeed(r, c, {}),
           req' = [req EXCEPT ![r].acc = IF access[req[r].agent] = {} THEN Keep ELSE access[req[r].agent]],
           UNCHANGED <<row, owner, access>>
    PROVE  SoFar(r)'
<1> DEFINE q == req[r]
           a == q.agent
           s == said[a]
           I == IdsOf(a)
           X == access[a]
           f == [q EXCEPT !.acc = IF X = {} THEN Keep ELSE X]
           D == (calls[r] \ {c}) \cup {}
<1>1. /\ q \in Request /\ Fits(q, calls[r]) /\ IdsSoFar(q, calls[r], s, I)
      /\ AccessSoFar(q, calls[r], s, X) /\ RowSoFar(q, calls[r], s, a \in row) /\ Read(q, calls[r], s)
  BY ReadyIs
<1>2. q.op = "resolve" /\ q.stage = "get"
  BY <1>1 DEF Fits, Allowed
<1>3. /\ req'[r] = f /\ f.op = q.op /\ f.agent = a /\ f.stage = "get" /\ f.new = q.new /\ f.ids = q.ids
      /\ f.failed = q.failed /\ f.acc \in {Keep, X}
      /\ calls'[r] = D /\ said' = said /\ IdsThen(a) = I
  BY <1>1, <1>2, SucceedIs DEF CoreInv, TypeOK, Request, IdsThen, IdsOf
<1>4. X = s.acc
  BY <1>1, <1>2 DEF AccessSoFar
<1>5. Part(D, {"getIds"}) = Part(calls[r], {"getIds"})
  BY DEF Part
<1> HIDE DEF D, f
<1>6. IdsSoFar(f, D, s, I) /\ AccessSoFar(f, D, s, X) /\ RowSoFar(f, D, s, a \in row)
  BY <1>1, <1>2, <1>3, <1>4 DEF IdsSoFar, AccessSoFar, RowSoFar
<1>7. Read(f, D, s)
  BY <1>1, <1>2, <1>3, <1>4, <1>5 DEF Read
<1> QED
  BY <1>3, <1>6, <1>7, SoFarThen

LEMMA WriteAccessSoFar ==
    ASSUME CoreInv, NEW r \in Requests, Ready(r), WriteAccess(r)
    PROVE  SoFar(r)'
<1> DEFINE q == req[r]
           a == q.agent
           s == said[a]
           I == IdsOf(a)
           X == access[a]
<1> PICK c \in calls[r] :
        /\ c.do \in {"putAccess", "dropAccess"}
        /\ \E e \in c.arg :
              /\ access' = [access EXCEPT ![a] = IF c.do = "putAccess" THEN @ \cup {e} ELSE @ \ {e}]
              /\ Succeed(r, c, IF c.arg = {e} THEN {} ELSE {With(c.do, c.arg \ {e})})
        /\ UNCHANGED <<row, owner, req>>
  BY DEF WriteAccess
<1> PICK e \in c.arg :
        /\ access' = [access EXCEPT ![a] = IF c.do = "putAccess" THEN @ \cup {e} ELSE @ \ {e}]
        /\ Succeed(r, c, IF c.arg = {e} THEN {} ELSE {With(c.do, c.arg \ {e})})
  OBVIOUS
<1> DEFINE more == One(c.do, c.arg \ {e})
           D == (calls[r] \ {c}) \cup more
<1>1. /\ q \in Request /\ Placed(q) /\ Fits(q, calls[r]) /\ IdsSoFar(q, calls[r], s, I)
      /\ AccessSoFar(q, calls[r], s, X) /\ RowSoFar(q, calls[r], s, a \in row)
      /\ Read(q, calls[r], s) /\ a \in Agents
  BY ReadyIs
<1>2. /\ q.stage = "write"
      /\ Part(calls[r], {"insertRow", "readAccess", "listIds", "dropAllIds", "listAccess"}) = {}
  <2>1. q.stage = "write"
    BY <1>1 DEF Fits, Allowed, Placed
  <2>2. \A d \in calls[r] : d.do \notin {"insertRow", "readAccess", "listIds", "dropAllIds", "listAccess"}
    BY <1>1 DEF Fits, Allowed, Precedes
  <2> QED
    BY <2>1, <2>2 DEF Part
<1>3. calls'[r] = D /\ said' = said /\ IdsThen(a) = I
  <2>1. Succeed(r, c, more)
    <3>1. c.arg = {e} <=> c.arg \ {e} = {}
      OBVIOUS
    <3> QED
      BY <3>1 DEF One
  <2> QED
    BY <2>1, SucceedIs DEF IdsThen, IdsOf
<1>4. access'[a] = IF c.do = "putAccess" THEN X \cup {e} ELSE X \ {e}
  BY <1>1 DEF CoreInv, TypeOK
<1>5. \A m \in more : m.do = c.do
  BY KindOne
<1>6. Args(more, {c.do}) = c.arg \ {e}
  BY ArgsOne
<1>7. Sole(calls[r], {c.do}, c)
  BY OneOfAKind DEF CoreInv, Batch, Sole
<1> HIDE DEF more
<1>8. Part(D, {"insertRow", "readAccess", "listIds", "dropAllIds", "listAccess"}) = {}
  BY <1>2, <1>5 DEF Part
<1>9. Args(calls[r], {c.do}) = c.arg /\ Args(D, {c.do}) = c.arg \ {e}
  <2>1. Part(calls[r], {c.do}) = {c} /\ Part(D, {c.do}) = Part(more, {c.do})
    BY <1>7 DEF Sole, Part
  <2>2. UNION {d.arg : d \in {c}} = c.arg
    OBVIOUS
  <2> QED
    BY <1>6, <2>1, <2>2 DEF Args
<1>10. \A k : k # c.do => Args(D, {k}) = Args(calls[r], {k})
  <2> TAKE k
  <2> HAVE k # c.do
  <2>1. Part(D, {k}) = Part(calls[r], {k})
    BY <1>5 DEF Part
  <2> QED
    BY <2>1 DEF Args
<1> HIDE DEF D
<1>11. AccessSoFar(q, D, s, access'[a])
  <2> DEFINE t == After(q, s).acc
             P == Args(calls[r], {"putAccess"})
             R == Args(calls[r], {"dropAccess"})
  <2>1. X = (t \ P) \cup R /\ P \subseteq t /\ R \cap t = {}
    BY <1>1, <1>2 DEF AccessSoFar
  <2>2. /\ access'[a] = (t \ Args(D, {"putAccess"})) \cup Args(D, {"dropAccess"})
        /\ Args(D, {"putAccess"}) \subseteq t /\ Args(D, {"dropAccess"}) \cap t = {}
    <3>1. CASE c.do = "putAccess"
      <4>1. P = c.arg /\ Args(D, {"putAccess"}) = P \ {e} /\ Args(D, {"dropAccess"}) = R /\ access'[a] = X \cup {e}
        BY <1>4, <1>9, <1>10, <3>1
      <4> HIDE DEF P, R, t, X
      <4> QED
        BY <2>1, <4>1
    <3>2. CASE c.do = "dropAccess"
      <4>1. R = c.arg /\ Args(D, {"putAccess"}) = P /\ Args(D, {"dropAccess"}) = R \ {e} /\ access'[a] = X \ {e}
        BY <1>4, <1>9, <1>10, <3>2
      <4> HIDE DEF P, R, t, X
      <4> QED
        BY <2>1, <4>1
    <3> QED
      BY <3>1, <3>2
  <2> QED
    BY <1>2, <1>8, <2>2 DEF AccessSoFar
<1>12. IdsSoFar(q, D, s, I)
  <2>1. c.do \notin IdKinds /\ \A m \in more : m.do \notin IdKinds
    BY <1>5 DEF IdKinds
  <2> QED
    BY <1>1, <2>1, IdsRest DEF D
<1>13. RowSoFar(q, D, s, a \in row)
  <2>1. c.do \notin RowKinds /\ \A m \in more : m.do \notin RowKinds
    BY <1>5 DEF RowKinds
  <2> QED
    BY <1>1, <2>1, RowRest DEF D
<1>14. Read(q, D, s)
  <2>1. c.do \notin ReadKinds /\ \A m \in more : m.do \notin ReadKinds
    BY <1>5 DEF ReadKinds
  <2> QED
    BY <1>1, <2>1, ReadRest DEF D
<1> QED
  BY <1>3, <1>11, <1>12, <1>13, <1>14, SoFarThen

-----------------------------------------------------------------------------
(* The stages of a request that resolves a token.                          *)

\* A request that has not begun to write comes to another stage.
LEMMA StageSoFar ==
    ASSUME CoreInv, NEW r \in Requests, Ready(r), NEW f, NEW C, req[r].stage # "write",
           req'[r] = f, calls'[r] = C, f.agent = req[r].agent, said' = said,
           UNCHANGED <<row, owner, access>>,
           f.stage # "write" \/ UpdateCalls \subseteq C,
           Read(f, C, said[f.agent])
    PROVE  SoFar(r)'
<1> DEFINE q == req[r]
           a == q.agent
           s == said[a]
<1>1. /\ IdsSoFar(q, calls[r], s, IdsOf(a)) /\ AccessSoFar(q, calls[r], s, access[a])
      /\ RowSoFar(q, calls[r], s, a \in row)
  BY ReadyIs
<1>2. IdsOf(a) = s.ids /\ access[a] = s.acc /\ (a \in row <=> s.row)
  BY <1>1 DEF IdsSoFar, AccessSoFar, RowSoFar
<1>3. IdsThen(a) = IdsOf(a)
  BY DEF IdsThen, IdsOf
<1>4. f.stage = "write" => /\ Part(C, {"insertRow", "readIds", "listIds"}) # {}
                           /\ Part(C, {"insertRow", "readAccess", "listIds", "dropAllIds", "listAccess"}) # {}
                           /\ Part(C, RowKinds) # {}
  <2> HAVE f.stage = "write"
  <2>1. Do("updateRow") \in C /\ Do("readIds") \in C /\ Do("readAccess") \in C
    BY DEF UpdateCalls
  <2>2. Do("updateRow").do = "updateRow" /\ Do("readIds").do = "readIds" /\ Do("readAccess").do = "readAccess"
    BY Made DEF Plain
  <2> QED
    BY <2>1, <2>2 DEF Part, RowKinds
<1>5. /\ IdsSoFar(f, C, s, IdsThen(a)) /\ AccessSoFar(f, C, s, access'[a]) /\ RowSoFar(f, C, s, a \in row')
  BY <1>2, <1>3, <1>4 DEF IdsSoFar, AccessSoFar, RowSoFar
<1> QED
  BY <1>5, SoFarThen

LEMMA GotAgentSoFar ==
    ASSUME CoreInv, NEW r \in Requests, Ready(r), GotAgent(r)
    PROVE  SoFar(r)'
<1> DEFINE q == req[r]
           s == said[q.agent]
<1>1. /\ q \in Request /\ q.stage = "get" /\ calls[r] = {} /\ ~q.failed /\ Read(q, calls[r], s)
      /\ q.op = "resolve" /\ UNCHANGED <<row, owner, access, said>>
  BY ReadyIs DEF GotAgent, CoreInv, Control, Placed, tables, others, ghosts
<1>2. q.ids = s.ids \cup {q.new} /\ q.acc \in {Keep, s.acc}
  BY <1>1 DEF Read, Part
<1>3. PICK stage \in {"issuer", "write"} :
        /\ req' = [req EXCEPT ![r].stage = stage]
        /\ stage = "write" => calls' = [calls EXCEPT ![r] = UpdateCalls]
  BY DEF GotAgent
<1> DEFINE f == [q EXCEPT !.stage = stage]
<1>4. /\ req'[r] = f /\ f.agent = q.agent /\ f.stage = stage /\ f.op = "resolve" /\ f.ids = q.ids
      /\ f.acc = q.acc /\ f.new = q.new
  BY <1>1, <1>3 DEF CoreInv, TypeOK, Request
<1>5. f.stage # "write" \/ UpdateCalls \subseteq calls'[r]
  BY <1>3, <1>4 DEF CoreInv, TypeOK
<1> HIDE DEF f
<1>6. Read(f, calls'[r], said[f.agent])
  BY <1>2, <1>4 DEF Read
<1>7. q.stage # "write" /\ said' = said
  BY <1>1
<1> QED
  BY <1>1, <1>4, <1>5, <1>6, <1>7, StageSoFar

LEMMA AddIssuerSoFar ==
    ASSUME CoreInv, NEW r \in Requests, Ready(r), AddIssuer(r), req[r].agent \notin broken'
    PROVE  SoFar(r)'
<1> DEFINE q == req[r]
           s == said[q.agent]
<1> PICK c \in calls[r] :
        /\ c = With("addIssuer", {q.new})
        /\ \/ req' = [req EXCEPT ![r].stage = "write"] /\ Succeed(r, c, UpdateCalls)
           \/ Refuse(r, c)
        /\ UNCHANGED <<row, owner, access>>
  BY DEF AddIssuer
<1>1. CASE Refuse(r, c)
  BY <1>1, RefusedSoFar
<1>2. CASE req' = [req EXCEPT ![r].stage = "write"] /\ Succeed(r, c, UpdateCalls)
  <2>1. q \in Request /\ Fits(q, calls[r]) /\ Read(q, calls[r], s)
    BY ReadyIs
  <2>2. q.op = "resolve" /\ q.stage = "issuer"
    BY <2>1, Made DEF Fits, Allowed
  <2>3. q.ids = s.ids \cup {q.new} /\ q.acc \in {Keep, s.acc}
    BY <2>1, <2>2 DEF Read
  <2> DEFINE f == [q EXCEPT !.stage = "write"]
  <2>4. /\ req'[r] = f /\ f.agent = q.agent /\ f.stage = "write" /\ f.op = "resolve" /\ f.ids = q.ids
        /\ f.acc = q.acc /\ f.new = q.new
    BY <1>2, <2>1, <2>2 DEF CoreInv, TypeOK, Request
  <2>5. UpdateCalls \subseteq calls'[r] /\ said' = said
    BY <1>2, SucceedIs
  <2> HIDE DEF f
  <2>6. Read(f, calls'[r], said[f.agent])
    BY <2>3, <2>4 DEF Read
  <2>7. q.stage # "write"
    BY <2>2
  <2> QED
    BY <2>4, <2>5, <2>6, <2>7, StageSoFar
<1> QED
  BY <1>1, <1>2

LEMMA DeleteTokenSoFar ==
    ASSUME CoreInv, NEW r \in Requests, Ready(r), DeleteToken(r), req[r].agent \notin broken'
    PROVE  SoFar(r)'
<1> DEFINE q == req[r]
           s == said[q.agent]
           more == {Do("getRow"), Do("getIds"), Do("getAccess")}
<1> PICK c \in calls[r] :
        /\ c.do = "deleteToken"
        /\ \/ req' = [req EXCEPT ![r].stage = "get"] /\ Succeed(r, c, more)
           \/ Refuse(r, c)
        /\ UNCHANGED <<row, owner, access>>
  BY DEF DeleteToken, tables
<1>1. CASE Refuse(r, c)
  BY <1>1, RefusedSoFar
<1>2. CASE req' = [req EXCEPT ![r].stage = "get"] /\ Succeed(r, c, more)
  <2>1. q \in Request /\ Fits(q, calls[r])
    BY ReadyIs
  <2>2. q.op = "resolve" /\ q.stage = "token"
    BY <2>1 DEF Fits, Allowed
  <2> DEFINE f == [q EXCEPT !.stage = "get"]
  <2>3. req'[r] = f /\ f.agent = q.agent /\ f.stage = "get" /\ f.op = "resolve"
    BY <1>2, <2>1, <2>2 DEF CoreInv, TypeOK, Request
  <2>4. calls'[r] = (calls[r] \ {c}) \cup more /\ said' = said
    BY <1>2, SucceedIs
  <2>5. Part(calls'[r], {"getIds"}) # {} /\ Part(calls'[r], {"getAccess"}) # {}
    <3>1. Do("getIds") \in calls'[r] /\ Do("getAccess") \in calls'[r]
      BY <2>4
    <3>2. Do("getIds").do = "getIds" /\ Do("getAccess").do = "getAccess"
      BY Made DEF Plain
    <3> QED
      BY <3>1, <3>2 DEF Part
  <2> HIDE DEF f
  <2>6. Read(f, calls'[r], said[f.agent])
    BY <2>3, <2>5 DEF Read
  <2>7. q.stage # "write" /\ f.stage # "write"
    BY <2>2, <2>3
  <2> QED
    BY <2>3, <2>4, <2>6, <2>7, StageSoFar
<1> QED
  BY <1>1, <1>2

\* Every step of a request but the first and the last.
LEMMA OwnSoFar ==
    ASSUME CoreInv, NEW r \in Requests, Ready(r), req[r].agent \notin broken',
           \/ InsertRow(r) \/ UndoRow(r) \/ UpdateRow(r) \/ DeleteRow(r) \/ CheckRow(r) \/ GetRow(r)
           \/ ReadIds(r) \/ Claim(r) \/ DropId(r) \/ ReadAccess(r) \/ WriteAccess(r)
           \/ CheckIssuer(r) \/ DeleteIssuer(r) \/ AddIssuer(r)
           \/ PutToken(r) \/ ReadToken(r) \/ DeleteToken(r) \/ GotAgent(r) \/ Fault(r)
    PROVE  SoFar(r)'
<1>1. CASE \/ InsertRow(r) \/ UndoRow(r) \/ UpdateRow(r) \/ DeleteRow(r) \/ CheckRow(r) \/ GetRow(r)
  BY <1>1, InsertRowSoFar, RowsSoFar
<1>2. CASE ReadIds(r)
  <2> PICK c \in calls[r] :
        /\ \/ /\ c.do = "readIds" /\ UNCHANGED req
              /\ Succeed(r, c, ReplaceIds(IdsOf(req[r].agent), req[r].ids))
           \/ /\ c.do = "listIds"
              /\ Succeed(r, c, IF IdsOf(req[r].agent) = {} THEN AfterDrop(req[r].agent, {})
                               ELSE {With("dropAllIds", IdsOf(req[r].agent))})
              /\ req' = [req EXCEPT ![r].ids = IdsOf(req[r].agent)]
           \/ /\ c.do = "getIds" /\ Succeed(r, c, {})
              /\ req' = [req EXCEPT ![r].ids = IdsOf(req[r].agent) \cup {req[r].new}]
        /\ UNCHANGED <<row, owner, access>>
    BY <1>2 DEF ReadIds, tables
  <2>1. CASE c.do = "readIds" /\ UNCHANGED req /\ Succeed(r, c, ReplaceIds(IdsOf(req[r].agent), req[r].ids))
    BY <2>1, ReadIdsSoFar
  <2>2. CASE /\ c.do = "listIds"
             /\ Succeed(r, c, IF IdsOf(req[r].agent) = {} THEN AfterDrop(req[r].agent, {})
                              ELSE {With("dropAllIds", IdsOf(req[r].agent))})
             /\ req' = [req EXCEPT ![r].ids = IdsOf(req[r].agent)]
    BY <2>2, ListIdsSoFar
  <2>3. CASE /\ c.do = "getIds" /\ Succeed(r, c, {})
             /\ req' = [req EXCEPT ![r].ids = IdsOf(req[r].agent) \cup {req[r].new}]
    BY <2>3, GetIdsSoFar
  <2> QED
    BY <2>1, <2>2, <2>3
<1>3. CASE Claim(r) \/ DropId(r) \/ WriteAccess(r) \/ AddIssuer(r) \/ DeleteToken(r) \/ GotAgent(r)
  BY <1>3, ClaimSoFar, DropIdSoFar, WriteAccessSoFar, AddIssuerSoFar, DeleteTokenSoFar, GotAgentSoFar
<1>4. CASE ReadAccess(r)
  <2> DEFINE X == access[req[r].agent]
  <2> PICK c \in calls[r] :
        /\ \/ c.do = "readAccess" /\ UNCHANGED req /\ Succeed(r, c, ReplaceAccess(X, req[r].acc))
           \/ c.do = "listAccess" /\ UNCHANGED req /\ Succeed(r, c, IF X = {} THEN {} ELSE {With("dropAccess", X)})
           \/ c.do = "getAccess" /\ Succeed(r, c, {}) /\ req' = [req EXCEPT ![r].acc = IF X = {} THEN Keep ELSE X]
        /\ UNCHANGED <<row, owner, access>>
    BY <1>4 DEF ReadAccess, tables
  <2>1. CASE c.do = "readAccess" /\ UNCHANGED req /\ Succeed(r, c, ReplaceAccess(X, req[r].acc))
    BY <2>1, ReadAccessSoFar
  <2>2. CASE c.do = "listAccess" /\ UNCHANGED req /\ Succeed(r, c, IF X = {} THEN {} ELSE {With("dropAccess", X)})
    BY <2>2, ListAccessSoFar
  <2>3. CASE c.do = "getAccess" /\ Succeed(r, c, {}) /\ req' = [req EXCEPT ![r].acc = IF X = {} THEN Keep ELSE X]
    BY <2>3, GetAccessSoFar
  <2> QED
    BY <2>1, <2>2, <2>3
<1>5. CASE CheckIssuer(r) \/ DeleteIssuer(r) \/ ReadToken(r) \/ Fault(r)
  <2>1. \/ \E c \in calls[r] : Refuse(r, c) /\ UNCHANGED <<row, owner, access>>
        \/ \E c \in calls[r] : /\ c.do = "checkIssuer" /\ UNCHANGED <<row, owner, access, req>>
                               /\ \E i : Succeed(r, c, {With("deleteIssuer", {i})}) \/ Succeed(r, c, {})
        \/ \E c \in calls[r] : c.do = "deleteIssuer" /\ UNCHANGED <<row, owner, access, req>> /\ Succeed(r, c, {})
        \/ \E c \in calls[r] : /\ c.do = "readToken" /\ UNCHANGED <<row, owner, access, req>>
                               /\ Succeed(r, c, {With("deleteToken", {token[req[r].agent]})})
    <3>1. CASE CheckIssuer(r)
      <4> PICK c \in calls[r], i \in Cli :
            /\ c = With("checkIssuer", {i})
            /\ Succeed(r, c, IF owner[i] = None THEN {With("deleteIssuer", {i})} ELSE {})
            /\ UNCHANGED <<row, owner, access, req>>
        BY <3>1 DEF CheckIssuer, tables
      <4>1. c.do = "checkIssuer"
        BY Made
      <4>2. Succeed(r, c, {With("deleteIssuer", {i})}) \/ Succeed(r, c, {})
        OBVIOUS
      <4> QED
        BY <4>1, <4>2
    <3>2. CASE DeleteIssuer(r)
      <4> PICK c \in calls[r], i \in Cli :
            /\ c = With("deleteIssuer", {i})
            /\ \/ Succeed(r, c, {}) /\ UNCHANGED req
               \/ Refuse(r, c)
            /\ UNCHANGED <<row, owner, access>>
        BY <3>2 DEF DeleteIssuer
      <4>1. c.do = "deleteIssuer"
        BY Made
      <4> QED
        BY <4>1
    <3>3. CASE ReadToken(r)
      BY <3>3 DEF ReadToken, tables
    <3>4. CASE Fault(r)
      BY <3>4 DEF Fault, tables
    <3> QED
      BY <1>5, <3>1, <3>2, <3>3, <3>4
  <2> DEFINE Aside == {"checkIssuer", "deleteIssuer", "readToken", "deleteToken"}
  <2>2. \A k \in Aside : k \notin IdKinds \cup AccessKinds \cup RowKinds \cup ReadKinds
    BY DEF IdKinds, AccessKinds, RowKinds, ReadKinds
  <2>3. ASSUME NEW c \in calls[r], Refuse(r, c), UNCHANGED <<row, owner, access>> PROVE SoFar(r)'
    BY <2>3, RefusedSoFar
  <2>4. ASSUME NEW c \in calls[r], c.do \in Aside, UNCHANGED <<row, owner, access, req>>, Succeed(r, c, {})
        PROVE  SoFar(r)'
    <3>1. c.do \notin IdKinds \cup AccessKinds \cup RowKinds \cup ReadKinds
      BY <2>2, <2>4
    <3> QED
      BY <2>4, <3>1, AsideSoFar
  <2>5. ASSUME NEW c \in calls[r], c.do \in Aside, UNCHANGED <<row, owner, access, req>>, NEW k \in Aside, NEW STATE x,
               Succeed(r, c, {With(k, x)})
        PROVE  SoFar(r)'
    <3>1. c.do \notin IdKinds \cup AccessKinds \cup RowKinds \cup ReadKinds
      BY <2>2, <2>5
    <3>2. \A m \in {With(k, x)} : m.do \notin IdKinds \cup AccessKinds \cup RowKinds \cup ReadKinds
      <4>1. With(k, x).do = k
        BY Made
      <4> QED
        BY <2>2, <4>1
    <3> QED
      BY <2>5, <3>1, <3>2, AsideSoFar
  <2> QED
    BY <2>1, <2>3, <2>4, <2>5
<1>6. CASE PutToken(r)
  <2>1. PICK c \in calls[r] : c.do = "putToken"
    BY <1>6 DEF PutToken
  <2>2. FALSE
    BY <2>1 DEF Ready, Writes, CoreInv, Control, Fits, Allowed
  <2> QED
    BY <2>2
<1> QED
  BY <1>1, <1>2, <1>3, <1>4, <1>5, <1>6

-----------------------------------------------------------------------------
(* What a step of a request does to the others and to their agents.        *)

\* A step of request r that is neither its first nor its last.
Goes(r) ==
    \/ InsertRow(r) \/ UndoRow(r) \/ UpdateRow(r) \/ DeleteRow(r) \/ CheckRow(r) \/ GetRow(r)
    \/ ReadIds(r) \/ Claim(r) \/ DropId(r) \/ ReadAccess(r) \/ WriteAccess(r)
    \/ CheckIssuer(r) \/ DeleteIssuer(r) \/ AddIssuer(r)
    \/ PutToken(r) \/ ReadToken(r) \/ DeleteToken(r) \/ GotAgent(r) \/ Fault(r)

LEMMA OthersStay ==
    ASSUME CoreInv, NEW r \in Requests, Step(r), NEW s \in Requests \ {r}
    PROVE  req'[s] = req[s] /\ calls'[s] = calls[s]
<1>1. Moves(r)
  BY NextMoves DEF Step, CoreInv
<1> QED
  BY <1>1 DEF Moves, Becomes, CoreInv, TypeOK

LEMMA GoesTouches ==
    ASSUME CoreInv, NEW r \in Requests, Goes(r)
    PROVE  Touches(r) /\ req[r].agent \in Agents /\ req[r].agent \in known
<1>1. Touches(r)
  BY TouchesRow, TouchesCalls DEF Goes, CoreInv
<1>2. req[r].agent \in known
  BY <1>1 DEF Touches, CoreInv, Names
<1> QED
  BY <1>1, <1>2 DEF CoreInv, TypeOK

\* What becomes of what the request is about.
LEMMA GoesIs ==
    ASSUME CoreInv, NEW r \in Requests, Goes(r)
    PROVE  \/ \E c \in calls[r] : Refuse(r, c)
           \/ /\ \/ req' = req
                 \/ \E x : req' = [req EXCEPT ![r].ids = x]
                 \/ \E x : req' = [req EXCEPT ![r].acc = x]
                 \/ req' = [req EXCEPT ![r].stage = "get"]
              /\ \E c \in calls[r] : \E more : Succeed(r, c, more)
           \/ \E c \in calls[r] : \E more :
                 req[r].stage = "issuer" /\ req' = [req EXCEPT ![r].stage = "write"] /\ Succeed(r, c, more)
           \/ /\ ~req[r].failed /\ \E x : req' = [req EXCEPT ![r].stage = x]
              /\ UNCHANGED <<said, raced, broken>>
<1>1. CASE InsertRow(r) \/ UndoRow(r) \/ UpdateRow(r) \/ DeleteRow(r) \/ CheckRow(r) \/ GetRow(r)
  BY <1>1 DEF InsertRow, UndoRow, UpdateRow, DeleteRow, CheckRow, GetRow, OnRow
<1>2. CASE ReadIds(r)
  BY <1>2 DEF ReadIds
<1>3. CASE Claim(r) \/ DropId(r)
  BY <1>3 DEF Claim, DropId
<1>4. CASE ReadAccess(r)
  BY <1>4 DEF ReadAccess
<1>5. CASE WriteAccess(r) \/ CheckIssuer(r) \/ DeleteIssuer(r)
  BY <1>5 DEF WriteAccess, CheckIssuer, DeleteIssuer
<1>6. CASE PutToken(r) \/ ReadToken(r) \/ DeleteToken(r) \/ Fault(r)
  BY <1>6 DEF PutToken, ReadToken, DeleteToken, Fault
<1>7. CASE GotAgent(r)
  BY <1>7 DEF GotAgent, others, ghosts
<1>8. CASE AddIssuer(r)
  <2> PICK c \in calls[r] :
        /\ c = With("addIssuer", {req[r].new})
        /\ \/ req' = [req EXCEPT ![r].stage = "write"] /\ Succeed(r, c, UpdateCalls)
           \/ Refuse(r, c)
    BY <1>8 DEF AddIssuer
  <2>1. req[r].stage = "issuer"
    BY Made DEF CoreInv, Control, Fits, Allowed
  <2> QED
    BY <2>1
<1> QED
  BY <1>1, <1>2, <1>3, <1>4, <1>5, <1>6, <1>7, <1>8 DEF Goes

\* The request keeps its agent, and breaks it when it fails as it writes.
LEMMA GoesOn ==
    ASSUME CoreInv, NEW r \in Requests, Goes(r)
    PROVE  /\ req'[r].op = req[r].op /\ req'[r].agent = req[r].agent
           /\ said' = said /\ raced' = raced
           /\ req'[r].failed /\ req'[r].stage \in {"issuer", "write"} =>
                 \/ req[r].agent \in broken'
                 \/ req[r].failed /\ req[r].stage \in {"issuer", "write"}
<1> DEFINE q == req[r]
<1>0. q \in Request
  BY DEF CoreInv, TypeOK
<1>1. CASE \E c \in calls[r] : Refuse(r, c)
  <2> PICK c \in calls[r] : Refuse(r, c)
    BY <1>1
  <2>1. req'[r] = [q EXCEPT !.failed = TRUE] /\ said' = said /\ raced' = raced
    BY DEF Refuse, CoreInv, TypeOK, others, ghosts
  <2>2. /\ [q EXCEPT !.failed = TRUE].op = q.op /\ [q EXCEPT !.failed = TRUE].agent = q.agent
        /\ [q EXCEPT !.failed = TRUE].stage = q.stage
    BY <1>0, Failed
  <2>3. q.stage \in {"issuer", "write"} => q.agent \in broken'
    BY DEF Refuse
  <2> QED
    BY <2>1, <2>2, <2>3
<1>2. CASE /\ \/ req' = req
              \/ \E x : req' = [req EXCEPT ![r].ids = x]
              \/ \E x : req' = [req EXCEPT ![r].acc = x]
              \/ req' = [req EXCEPT ![r].stage = "get"]
           /\ \E c \in calls[r] : \E more : Succeed(r, c, more)
  <2>1. said' = said /\ raced' = raced
    BY <1>2, SucceedIs
  <2>2. /\ req'[r].op = q.op /\ req'[r].agent = q.agent /\ req'[r].failed = q.failed
        /\ req'[r].stage \in {q.stage, "get"}
    <3>1. CASE req' = req
      BY <3>1
    <3>2. CASE \E x : req' = [req EXCEPT ![r].ids = x]
      BY <1>0, <3>2 DEF CoreInv, TypeOK, Request
    <3>3. CASE \E x : req' = [req EXCEPT ![r].acc = x]
      BY <1>0, <3>3 DEF CoreInv, TypeOK, Request
    <3>4. CASE req' = [req EXCEPT ![r].stage = "get"]
      BY <1>0, <3>4 DEF CoreInv, TypeOK, Request
    <3> QED
      BY <1>2, <3>1, <3>2, <3>3, <3>4
  <2> QED
    BY <2>1, <2>2
<1>3. CASE \E c \in calls[r] : \E more :
              q.stage = "issuer" /\ req' = [req EXCEPT ![r].stage = "write"] /\ Succeed(r, c, more)
  <2>1. said' = said /\ raced' = raced /\ q.stage = "issuer"
    BY <1>3, SucceedIs
  <2>2. req'[r].op = q.op /\ req'[r].agent = q.agent /\ req'[r].failed = q.failed
    BY <1>0, <1>3 DEF CoreInv, TypeOK, Request
  <2> QED
    BY <2>1, <2>2
<1>4. CASE ~q.failed /\ (\E x : req' = [req EXCEPT ![r].stage = x]) /\ UNCHANGED <<said, raced, broken>>
  <2>1. req'[r].op = q.op /\ req'[r].agent = q.agent /\ req'[r].failed = q.failed
    BY <1>0, <1>4 DEF CoreInv, TypeOK, Request
  <2> QED
    BY <1>4, <2>1
<1> QED
  BY <1>1, <1>2, <1>3, <1>4, GoesIs

LEMMA NoDrops ==
    ASSUME NEW D, \A d \in D : d.do \notin {"dropIds", "dropAllIds"}
    PROVE  Drops(D) = {}
BY DEF Drops, Args, Part

LEMMA DropsUnion ==
    ASSUME NEW C, NEW c, NEW more
    PROVE  Drops((C \ {c}) \cup more) \subseteq Drops(C) \cup Drops(more)
BY DEF Drops, Args, Part

\* What a deletion is to drop once it has listed the identities.
LEMMA ListedDrops ==
    ASSUME NEW a, NEW has
    PROVE  Drops(IF has = {} THEN AfterDrop(a, {}) ELSE {With("dropAllIds", has)}) = has
<1>1. CASE has = {}
  <2>1. Drops(AfterDrop(a, {})) = {}
    BY AfterDropIs, NoDrops
  <2> QED
    BY <1>1, <2>1
<1>2. CASE has # {}
  <2>1. Args(One("dropAllIds", has), {"dropIds", "dropAllIds"}) = has
    BY ArgsOne
  <2> QED
    BY <1>2, <2>1 DEF Drops, One
<1> QED
  BY <1>1, <1>2

\* The calls that follow an answer and drop nothing.
LEMMA FollowNoDrops ==
    ASSUME NEW a, NEW q, NEW has, NEW X, NEW acc, NEW k \in {"putAccess", "dropAccess"}
    PROVE  /\ Drops(AfterInsert(q)) = {} /\ Drops(ReplaceAccess(X, acc)) = {}
           /\ Drops(One(k, X)) = {} /\ Drops(UpdateCalls) = {} /\ Drops({}) = {}
           /\ Drops({Do("getRow"), Do("getIds"), Do("getAccess")}) = {} /\ Drops({Do("putToken")}) = {}
           /\ \A i : Drops({With("deleteIssuer", {i})}) = {} /\ Drops({With("deleteToken", {i})}) = {}
                       /\ Drops({With("addIssuer", {i})}) = {}
<1>1. \A w \in {"claim", "putAccess", "dropAccess", "deleteIssuer", "deleteToken", "addIssuer"} : \A x :
        With(w, x).do \notin {"dropIds", "dropAllIds"}
  BY Made
<1>2. \A w \in {"updateRow", "readIds", "readAccess", "getRow", "getIds", "getAccess", "putToken"} :
        Do(w).do \notin {"dropIds", "dropAllIds"}
  BY Made DEF Plain
<1>3. Drops(AfterInsert(q)) = {}
  <2>1. \A d \in AfterInsert(q) : d.do \notin {"dropIds", "dropAllIds"}
    BY <1>1 DEF AfterInsert
  <2> QED
    BY <2>1, NoDrops
<1>4. Drops(ReplaceAccess(X, acc)) = {}
  <2>1. \A d \in ReplaceAccess(X, acc) : d.do \notin {"dropIds", "dropAllIds"}
    BY <1>1 DEF ReplaceAccess
  <2> QED
    BY <2>1, NoDrops
<1>5. Drops(One(k, X)) = {}
  <2>1. \A d \in One(k, X) : d.do \notin {"dropIds", "dropAllIds"}
    BY KindOne
  <2> QED
    BY <2>1, NoDrops
<1>6. /\ Drops(UpdateCalls) = {} /\ Drops({}) = {} /\ Drops({Do("putToken")}) = {}
      /\ Drops({Do("getRow"), Do("getIds"), Do("getAccess")}) = {}
  <2>1. \A d \in UpdateCalls : d.do \notin {"dropIds", "dropAllIds"}
    BY <1>2 DEF UpdateCalls
  <2>2. \A d \in {Do("getRow"), Do("getIds"), Do("getAccess")} : d.do \notin {"dropIds", "dropAllIds"}
    BY <1>2
  <2>3. \A d \in {Do("putToken")} : d.do \notin {"dropIds", "dropAllIds"}
    BY <1>2
  <2>4. \A d \in {} : d.do \notin {"dropIds", "dropAllIds"}
    OBVIOUS
  <2> QED
    BY <2>1, <2>2, <2>3, <2>4, NoDrops
<1>7. \A i : Drops({With("deleteIssuer", {i})}) = {} /\ Drops({With("deleteToken", {i})}) = {}
              /\ Drops({With("addIssuer", {i})}) = {}
  <2> TAKE i
  <2>1. ASSUME NEW w \in {"deleteIssuer", "deleteToken", "addIssuer"} PROVE Drops({With(w, {i})}) = {}
    <3>1. \A d \in {With(w, {i})} : d.do \notin {"dropIds", "dropAllIds"}
      BY <1>1
    <3> QED
      BY <3>1, NoDrops
  <2> QED
    BY <2>1
<1> QED
  BY <1>3, <1>4, <1>5, <1>6, <1>7

\* Of the identity table, a step changes what belongs to the agent, or to nobody.
OwnOnly(a) == \A i \in Identities : owner'[i] = owner[i] \/ (owner[i] \in {None, a} /\ owner'[i] \in {None, a})

LEMMA SucceedDrops ==
    ASSUME CoreInv, NEW r \in Requests, NEW c \in calls[r], NEW more, Succeed(r, c, more), owner' = owner,
           Drops(calls[r]) \subseteq IdsOf(req[r].agent), Drops(more) \subseteq IdsOf(req[r].agent)
    PROVE  Drops(calls'[r]) \subseteq IdsThen(req[r].agent) /\ OwnOnly(req[r].agent)
<1>1. calls'[r] = (calls[r] \ {c}) \cup more
  BY SucceedIs
<1>2. IdsThen(req[r].agent) = IdsOf(req[r].agent) /\ OwnOnly(req[r].agent)
  BY DEF IdsThen, IdsOf, OwnOnly
<1>3. Drops(calls'[r]) \subseteq Drops(calls[r]) \cup Drops(more)
  BY <1>1, DropsUnion
<1> QED
  BY <1>2, <1>3

LEMMA RefuseDrops ==
    ASSUME CoreInv, NEW r \in Requests, NEW c \in calls[r], Refuse(r, c), owner' = owner,
           Drops(calls[r]) \subseteq IdsOf(req[r].agent)
    PROVE  Drops(calls'[r]) \subseteq IdsThen(req[r].agent) /\ OwnOnly(req[r].agent)
<1>1. PICK more \in {{}, {Do("undoRow")}} : calls'[r] = (calls[r] \ {c}) \cup more
  BY DEF Refuse, CoreInv, TypeOK
<1>2. IdsThen(req[r].agent) = IdsOf(req[r].agent) /\ OwnOnly(req[r].agent)
  BY DEF IdsThen, IdsOf, OwnOnly
<1>3. Drops(more) = {}
  <2>1. \A d \in more : d.do \notin {"dropIds", "dropAllIds"}
    BY Made DEF Plain
  <2> QED
    BY <2>1, NoDrops
<1>4. Drops(calls'[r]) \subseteq Drops(calls[r]) \cup Drops(more)
  BY <1>1, DropsUnion
<1> QED
  BY <1>2, <1>3, <1>4

LEMMA ClaimDrops ==
    ASSUME CoreInv, NEW r \in Requests, Claim(r), Drops(calls[r]) \subseteq IdsOf(req[r].agent),
           req[r].agent \in Agents
    PROVE  Drops(calls'[r]) \subseteq IdsThen(req[r].agent) /\ OwnOnly(req[r].agent)
<1> DEFINE a == req[r].agent
<1> PICK c \in calls[r], i \in Identities :
        \/ /\ owner[i] = None /\ owner' = [owner EXCEPT ![i] = a]
           /\ Succeed(r, c, {})
        \/ Refuse(r, c) /\ UNCHANGED owner
  BY DEF Claim
<1>1. CASE Refuse(r, c) /\ UNCHANGED owner
  BY <1>1, RefuseDrops
<1>2. CASE owner[i] = None /\ owner' = [owner EXCEPT ![i] = a] /\ Succeed(r, c, {})
  <2>1. calls'[r] = (calls[r] \ {c}) \cup {}
    BY <1>2, SucceedIs
  <2>2. Drops(calls'[r]) \subseteq Drops(calls[r]) \cup Drops({})
    BY <2>1, DropsUnion
  <2>3. Drops({}) = {}
    BY NoDrops
  <2>4. \A j \in Identities : owner'[j] = IF j = i THEN a ELSE owner[j]
    BY <1>2 DEF CoreInv, TypeOK
  <2>5. IdsOf(a) \subseteq IdsThen(a) /\ OwnOnly(a)
    BY <1>2, <2>4 DEF IdsOf, IdsThen, OwnOnly
  <2> QED
    BY <2>2, <2>3, <2>5
<1> QED
  BY <1>1, <1>2

LEMMA DropIdDrops ==
    ASSUME CoreInv, NEW r \in Requests, DropId(r), Drops(calls[r]) \subseteq IdsOf(req[r].agent),
           req[r].agent \in Agents
    PROVE  Drops(calls'[r]) \subseteq IdsThen(req[r].agent) /\ OwnOnly(req[r].agent)
<1> DEFINE q == req[r]
           a == q.agent
<1> PICK c \in calls[r] :
        /\ c.do \in {"dropIds", "dropAllIds"}
        /\ \E i \in c.arg : owner' = [owner EXCEPT ![i] = None] /\ Succeed(r, c, AfterGone(r, c, i))
  BY DEF DropId, AfterGone
<1> PICK i \in c.arg : owner' = [owner EXCEPT ![i] = None] /\ Succeed(r, c, AfterGone(r, c, i))
  OBVIOUS
<1> DEFINE more == AfterGone(r, c, i)
           D == (calls[r] \ {c}) \cup more
<1>1. Fits(q, calls[r]) /\ q \in Request
  BY DEF CoreInv, Control, TypeOK
<1>2. Sole(calls[r], {"dropIds", "dropAllIds"}, c)
  <2>1. q.op = "delete" <=> c.do = "dropAllIds"
    BY <1>1 DEF Fits, Allowed
  <2>2. \A d \in calls[r] : d.do \in {"dropIds", "dropAllIds"} => d.do = c.do
    BY <1>1, <2>1 DEF Fits, Allowed
  <2>3. \A d \in calls[r] : d.do = c.do => d = c
    BY OneOfAKind DEF CoreInv, Batch
  <2> QED
    BY <2>2, <2>3 DEF Sole
<1>3. c.arg \subseteq IdsOf(a)
  BY DEF Drops, Args, Part
<1>4. Drops(more) = c.arg \ {i}
  BY AfterGoneIs
<1>5. calls'[r] = D
  BY SucceedIs
<1>6. Drops(D) = c.arg \ {i}
  <2> HIDE DEF more
  <2>1. Part(D, {"dropIds", "dropAllIds"}) = Part(more, {"dropIds", "dropAllIds"})
    BY <1>2 DEF Sole, Part
  <2> QED
    BY <1>4, <2>1 DEF Drops, Args
<1>7. \A j \in Identities : owner'[j] = IF j = i THEN None ELSE owner[j]
  BY <1>3 DEF CoreInv, TypeOK, IdsOf
<1>8. IdsThen(a) = IdsOf(a) \ {i}
  BY <1>7, AgentAssumption DEF IdsThen, IdsOf
<1>9. OwnOnly(a)
  BY <1>3, <1>7 DEF OwnOnly, IdsOf
<1> QED
  BY <1>3, <1>5, <1>6, <1>8, <1>9

\* A request drops identities of its agent, and claims what nobody has.
LEMMA GoesDrops ==
    ASSUME CoreInv, NEW r \in Requests, Goes(r), Drops(calls[r]) \subseteq IdsOf(req[r].agent)
    PROVE  Drops(calls'[r]) \subseteq IdsThen(req[r].agent) /\ OwnOnly(req[r].agent)
<1> DEFINE q == req[r]
           a == q.agent
           I == IdsOf(a)
<1>0. a \in Agents
  BY GoesTouches
<1>1. ASSUME NEW c \in calls[r], Refuse(r, c), owner' = owner
      PROVE  Drops(calls'[r]) \subseteq IdsThen(a) /\ OwnOnly(a)
  BY <1>1, RefuseDrops
<1>2. ASSUME NEW c \in calls[r], NEW STATE more, Succeed(r, c, more), owner' = owner, Drops(more) = {}
      PROVE  Drops(calls'[r]) \subseteq IdsThen(a) /\ OwnOnly(a)
  <2>1. Drops(more) \subseteq I
    BY <1>2
  <2> QED
    BY <1>2, <2>1, SucceedDrops
<1>3. CASE InsertRow(r) \/ UndoRow(r) \/ UpdateRow(r) \/ DeleteRow(r) \/ CheckRow(r) \/ GetRow(r)
  <2>1. owner' = owner
    BY <1>3 DEF InsertRow, UndoRow, UpdateRow, DeleteRow, CheckRow, GetRow, OnRow
  <2>2. \E c \in calls[r] : \/ Refuse(r, c) \/ Succeed(r, c, AfterInsert(q))
                            \/ Succeed(r, c, {}) \/ Succeed(r, c, {Do("putToken")})
    BY <1>3 DEF InsertRow, UndoRow, UpdateRow, DeleteRow, CheckRow, GetRow, OnRow, AfterInsert
  <2>3. Drops(AfterInsert(q)) = {} /\ Drops({}) = {} /\ Drops({Do("putToken")}) = {}
    BY FollowNoDrops
  <2> QED
    BY <1>1, <1>2, <2>1, <2>2, <2>3
<1>4. CASE ReadIds(r)
  <2> PICK c \in calls[r] : /\ \/ Succeed(r, c, ReplaceIds(I, q.ids))
                               \/ Succeed(r, c, IF I = {} THEN AfterDrop(a, {}) ELSE {With("dropAllIds", I)})
                               \/ Succeed(r, c, {})
                            /\ owner' = owner
    BY <1>4 DEF ReadIds, tables
  <2>1. Drops(ReplaceIds(I, q.ids)) \subseteq I
    <3>1. CASE q.ids = Keep
      <4>1. ReplaceIds(I, q.ids) = {}
        BY <3>1 DEF ReplaceIds
      <4>2. Drops({}) = {}
        BY NoDrops
      <4> QED
        BY <4>1, <4>2
    <3>2. CASE q.ids # Keep
      <4>1. q.ids \in SUBSET Identities /\ I \in SUBSET Identities
        BY <3>2 DEF CoreInv, TypeOK, Request, IdsOf
      <4>2. Drops(ReplaceIds(I, q.ids)) = I \ q.ids
        BY <4>1, ReplaceIdsIs
      <4> QED
        BY <4>2
    <3> QED
      BY <3>1, <3>2
  <2>2. Drops(IF I = {} THEN AfterDrop(a, {}) ELSE {With("dropAllIds", I)}) \subseteq I
    BY ListedDrops
  <2>3. Drops({}) \subseteq I
    BY NoDrops
  <2> QED
    BY <2>1, <2>2, <2>3, SucceedDrops
<1>5. CASE Claim(r) \/ DropId(r)
  BY <1>0, <1>5, ClaimDrops, DropIdDrops
<1>6. CASE ReadAccess(r)
  <2> DEFINE X == access[a]
  <2>1. /\ \E c \in calls[r] : \/ Succeed(r, c, ReplaceAccess(X, q.acc)) \/ Succeed(r, c, One("dropAccess", X))
                               \/ Succeed(r, c, {})
        /\ owner' = owner
    BY <1>6 DEF ReadAccess, tables, One
  <2>2. Drops(ReplaceAccess(X, q.acc)) = {} /\ Drops(One("dropAccess", X)) = {} /\ Drops({}) = {}
    BY FollowNoDrops
  <2> HIDE DEF X
  <2> QED
    BY <1>2, <2>1, <2>2
<1>7. CASE WriteAccess(r)
  <2> PICK c \in calls[r] :
        /\ c.do \in {"putAccess", "dropAccess"}
        /\ \E e \in c.arg : Succeed(r, c, IF c.arg = {e} THEN {} ELSE {With(c.do, c.arg \ {e})})
        /\ owner' = owner
    BY <1>7 DEF WriteAccess
  <2> PICK e \in c.arg : Succeed(r, c, IF c.arg = {e} THEN {} ELSE {With(c.do, c.arg \ {e})})
    OBVIOUS
  <2>1. Succeed(r, c, One(c.do, c.arg \ {e}))
    <3>1. c.arg = {e} <=> c.arg \ {e} = {}
      OBVIOUS
    <3> QED
      BY <3>1 DEF One
  <2>2. Drops(One(c.do, c.arg \ {e})) = {}
    BY FollowNoDrops
  <2> QED
    BY <1>2, <2>1, <2>2
<1>8. CASE CheckIssuer(r) \/ DeleteIssuer(r) \/ PutToken(r) \/ ReadToken(r) \/ DeleteToken(r) \/ AddIssuer(r) \/ Fault(r)
  <2>1. owner' = owner
    BY <1>8 DEF CheckIssuer, DeleteIssuer, PutToken, ReadToken, DeleteToken, AddIssuer, Fault, tables
  <2>2. \E c \in calls[r] :
           \/ Refuse(r, c) \/ Succeed(r, c, {}) \/ Succeed(r, c, UpdateCalls)
           \/ Succeed(r, c, {Do("getRow"), Do("getIds"), Do("getAccess")})
           \/ \E i : Succeed(r, c, {With("deleteIssuer", {i})}) \/ Succeed(r, c, {With("deleteToken", {i})})
    <3>1. CASE CheckIssuer(r) \/ DeleteIssuer(r)
      BY <3>1 DEF CheckIssuer, DeleteIssuer
    <3>2. CASE PutToken(r) \/ ReadToken(r) \/ Fault(r)
      BY <3>2 DEF PutToken, ReadToken, Fault
    <3>3. CASE DeleteToken(r) \/ AddIssuer(r)
      BY <3>3 DEF DeleteToken, AddIssuer
    <3> QED
      BY <1>8, <3>1, <3>2, <3>3
  <2>3. /\ Drops(UpdateCalls) = {} /\ Drops({}) = {}
        /\ Drops({Do("getRow"), Do("getIds"), Do("getAccess")}) = {}
        /\ \A i : Drops({With("deleteIssuer", {i})}) = {} /\ Drops({With("deleteToken", {i})}) = {}
    BY FollowNoDrops
  <2> PICK c \in calls[r] :
           \/ Refuse(r, c) \/ Succeed(r, c, {}) \/ Succeed(r, c, UpdateCalls)
           \/ Succeed(r, c, {Do("getRow"), Do("getIds"), Do("getAccess")})
           \/ \E i : Succeed(r, c, {With("deleteIssuer", {i})}) \/ Succeed(r, c, {With("deleteToken", {i})})
    BY <2>2
  <2>4. CASE \E i : Succeed(r, c, {With("deleteIssuer", {i})}) \/ Succeed(r, c, {With("deleteToken", {i})})
    <3> PICK i : Succeed(r, c, {With("deleteIssuer", {i})}) \/ Succeed(r, c, {With("deleteToken", {i})})
      BY <2>4
    <3>1. Drops({With("deleteIssuer", {i})}) \subseteq I /\ Drops({With("deleteToken", {i})}) \subseteq I
      BY <2>3
    <3> QED
      BY <2>1, <3>1, SucceedDrops
  <2> QED
    BY <1>1, <1>2, <2>1, <2>3, <2>4
<1>9. CASE GotAgent(r)
  <2>1. owner' = owner
    BY <1>9 DEF GotAgent, tables
  <2>2. calls'[r] = {With("addIssuer", {q.new})} \/ calls'[r] = UpdateCalls
    BY <1>9 DEF GotAgent, CoreInv, TypeOK
  <2>3. Drops(calls'[r]) = {}
    BY <2>2, FollowNoDrops
  <2> QED
    BY <2>1, <2>3 DEF OwnOnly
<1> QED
  BY <1>3, <1>4, <1>5, <1>6, <1>7, <1>8, <1>9 DEF Goes

\* A request that only puts a token leaves the agents alone.
LEMMA InitLeaves ==
    ASSUME CoreInv, NEW r \in Requests, Goes(r), ~Writes(req[r])
    PROVE  UNCHANGED <<row, owner, access, broken>>
<1> DEFINE q == req[r]
<1>1. q \in Request /\ Placed(q) /\ Fits(q, calls[r])
  BY DEF CoreInv, TypeOK, Control
<1>2. q.op # "none"
  BY GoesTouches DEF Touches
<1>3. q.op = "init" /\ q.stage = "token"
  BY <1>1, <1>2 DEF Writes, Request, Placed
<1>4. \A c \in calls[r] : c.do \in {"checkRow", "putToken"}
  BY <1>1, <1>3 DEF Fits, Allowed
<1>5. \A c \in calls[r] : Refuse(r, c) => broken' = broken
  BY <1>3 DEF Refuse
<1>6. \A c \in calls[r] : \A more : Succeed(r, c, more) => broken' = broken
  BY DEF Succeed
<1>7. CASE CheckRow(r)
  BY <1>5, <1>6, <1>7 DEF CheckRow, OnRow
<1>8. CASE Fault(r)
  BY <1>5, <1>8 DEF Fault, tables
<1>9. CASE PutToken(r)
  BY <1>6, <1>9 DEF PutToken, tables
<1>10. CASE InsertRow(r) \/ UndoRow(r) \/ UpdateRow(r) \/ DeleteRow(r) \/ GetRow(r)
  BY <1>4, <1>10 DEF InsertRow, UndoRow, UpdateRow, DeleteRow, GetRow, OnRow
<1>11. CASE ReadIds(r) \/ DropId(r) \/ ReadAccess(r) \/ WriteAccess(r) \/ ReadToken(r) \/ DeleteToken(r)
  BY <1>4, <1>11 DEF ReadIds, DropId, ReadAccess, WriteAccess, ReadToken, DeleteToken
<1>12. CASE Claim(r) \/ CheckIssuer(r) \/ DeleteIssuer(r) \/ AddIssuer(r)
  <2>1. PICK c \in calls[r], k \in {"claim", "checkIssuer", "deleteIssuer", "addIssuer"} : \E x : c = With(k, x)
    BY <1>12 DEF Claim, CheckIssuer, DeleteIssuer, AddIssuer
  <2>2. c.do = k
    BY <2>1, Made
  <2>3. FALSE
    BY <1>4, <2>2
  <2> QED
    BY <2>3
<1>13. CASE GotAgent(r)
  BY <1>3, <1>13 DEF GotAgent
<1> QED
  BY <1>7, <1>8, <1>9, <1>10, <1>11, <1>12, <1>13 DEF Goes

\* The requests for other agents, and those agents, do not notice.
LEMMA OtherSoFar ==
    ASSUME CoreInv, NEW r \in Requests, Step(r), Touches(r), OwnOnly(req[r].agent), req[r].agent \in Agents,
           NEW s \in Requests \ {r}, Writes(req[s]), req[s].agent # req[r].agent, SoFar(s)
    PROVE  SoFar(s)'
<1> DEFINE b == req[s].agent
<1>1. b \in Agents
  <2>1. req[s].op # "none"
    BY DEF Writes
  <2> QED
    BY <2>1 DEF CoreInv, Names, TypeOK
<1>2. req'[s] = req[s] /\ calls'[s] = calls[s]
  BY OthersStay
<1>3. said'[b] = said[b] /\ access'[b] = access[b] /\ (b \in row' <=> b \in row)
  BY <1>1 DEF Touches
<1>4. IdsThen(b) = IdsOf(b)
  BY <1>1, AgentAssumption DEF OwnOnly, IdsThen, IdsOf
<1>5. /\ IdsSoFar(req[s], calls[s], said[b], IdsOf(b)) /\ AccessSoFar(req[s], calls[s], said[b], access[b])
      /\ RowSoFar(req[s], calls[s], said[b], b \in row) /\ Read(req[s], calls[s], said[b])
  BY DEF SoFar
<1>6. IdsOf(req[s].agent)' = IdsThen(b)
  BY <1>2 DEF IdsThen, IdsOf
<1>7. RowSoFar(req[s], calls[s], said[b], b \in row')
  BY <1>3, <1>5 DEF RowSoFar
<1> QED
  BY <1>2, <1>3, <1>4, <1>5, <1>6, <1>7 DEF SoFar

LEMMA OtherExact ==
    ASSUME CoreInv, NEW r \in Requests, Touches(r), OwnOnly(req[r].agent), req[r].agent \in Agents,
           NEW b \in Agents, b # req[r].agent, Exact(b)
    PROVE  Exact(b)'
<1>1. said'[b] = said[b] /\ access'[b] = access[b] /\ (b \in row' <=> b \in row)
  BY DEF Touches
<1>2. IdsThen(b) = IdsOf(b)
  BY AgentAssumption DEF OwnOnly, IdsThen, IdsOf
<1>3. IdsOf(b)' = IdsThen(b)
  BY DEF IdsThen, IdsOf
<1> QED
  BY <1>1, <1>2, <1>3 DEF Exact

-----------------------------------------------------------------------------
(* The last step of a request, and the first.                              *)

\* A request that ends leaves its agent as it is then said to be.
LEMMA AnswerExact ==
    ASSUME CoreInv, NEW r \in Requests, Ready(r), Answer(r), NEW a, a = req[r].agent
    PROVE  Exact(a)'
<1> DEFINE q == req[r]
           s == said[a]
<1>1. /\ q \in Request /\ Placed(q) /\ a \in Agents
      /\ IdsSoFar(q, calls[r], s, IdsOf(a)) /\ AccessSoFar(q, calls[r], s, access[a])
      /\ RowSoFar(q, calls[r], s, a \in row)
      /\ s \in [row : BOOLEAN, ids : SUBSET Identities, acc : SUBSET Entries]
      /\ q.op \in {"add", "update", "delete", "resolve"}
      /\ q.stage \in {"write", "issuer"} => ~q.failed
  BY ReadyIs
<1>2. /\ calls[r] = {} /\ (q.stage = "get" => q.failed)
      /\ said' = IF q.failed THEN said ELSE [said EXCEPT ![a] = After(q, @)]
      /\ UNCHANGED <<row, owner, access>>
  BY DEF Answer, tables
<1>3. IdsOf(a)' = IdsOf(a)
  BY <1>2 DEF IdsOf
<1>4. q.failed \/ q.stage = "write"
  <2>1. q.op # "resolve" => q.stage = "write"
    BY <1>1 DEF Placed
  <2>2. q.op = "resolve" /\ q.stage \in {"token", "issuer"} => q.failed
    BY <1>2 DEF CoreInv, Control, Waits
  <2>3. q.op = "resolve" => q.stage \in {"token", "get", "issuer", "write"}
    BY <1>1 DEF Placed, Request
  <2> QED
    BY <1>2, <2>1, <2>2, <2>3
<1>5. CASE q.failed
  <2>1. q.stage # "write" /\ said' = said
    BY <1>1, <1>2, <1>5
  <2>2. IdsOf(a) = s.ids /\ access[a] = s.acc /\ (a \in row <=> s.row)
    BY <1>1, <2>1 DEF IdsSoFar, AccessSoFar, RowSoFar
  <2>3. [row |-> a \in row, ids |-> IdsOf(a), acc |-> access[a]] = s
    BY <1>1, <2>2
  <2>4. said'[a] = s /\ access'[a] = access[a] /\ row' = row
    BY <1>2, <2>1
  <2> QED
    BY <1>3, <2>3, <2>4 DEF Exact
<1>6. CASE ~q.failed
  <2> DEFINE t == After(q, s)
  <2>1. q.stage = "write" /\ said'[a] = t
    BY <1>1, <1>2, <1>4, <1>6 DEF CoreInv, TypeOK
  <2>2. \A K : Part({}, K) = {} /\ Args({}, K) = {}
    BY DEF Part, Args
  <2>3. Claims({}) = {} /\ Drops({}) = {}
    BY <2>2 DEF Claims, Drops
  <2>4. IdsOf(a) = t.ids /\ access[a] = t.acc /\ (a \in row <=> t.row)
    BY <1>1, <1>2, <2>1, <2>2, <2>3 DEF IdsSoFar, AccessSoFar, RowSoFar
  <2>5. t \in [row : BOOLEAN, ids : {t.ids}, acc : {t.acc}]
    BY <1>1 DEF After, Nothing
  <2> HIDE DEF t
  <2>6. [row |-> a \in row, ids |-> IdsOf(a), acc |-> access[a]] = t
    BY <2>4, <2>5
  <2>7. access'[a] = access[a] /\ row' = row
    BY <1>2
  <2> QED
    BY <1>3, <2>1, <2>6, <2>7 DEF Exact
<1> QED
  BY <1>5, <1>6

\* A request that arrives finds its agent as it was said to be.
LEMMA ArriveSoFar ==
    ASSUME CoreInv, Fresh, NEW r \in Requests, NEW q \in Request, Arrives(r, q), Writes(q), Exact(q.agent)
    PROVE  SoFar(r)' /\ Drops(calls'[r]) = {}
<1> DEFINE a == q.agent
           s == said[a]
           C == calls'[r]
<1>4. /\ Do("insertRow").do = "insertRow" /\ Do("updateRow").do = "updateRow" /\ Do("readIds").do = "readIds"
      /\ Do("readAccess").do = "readAccess" /\ Do("deleteRow").do = "deleteRow" /\ Do("listIds").do = "listIds"
      /\ Do("readToken").do = "readToken"
  BY Made DEF Plain
<1>0. \E first : Begin(r, q, first) /\ C = first
  BY DEF Arrives, Begin, CoreInv, TypeOK
<1>1. /\ req'[r] = q /\ UNCHANGED <<row, owner, access, said>> /\ a \in Agents
      /\ C \in {{Do("insertRow")}, UpdateCalls, {Do("deleteRow"), Do("listIds")}, {Do("readToken")}}
      /\ q.op = "add" => q.agent \notin known
      /\ q.stage = "write" <=> C # {Do("readToken")}
      /\ q.op = "resolve" => q.stage = "token"
  <2>1. req'[r] = q /\ UNCHANGED <<row, owner, access, said>>
    BY <1>0 DEF Begin, CoreInv, TypeOK, tables
  <2>2. a \in Agents /\ (q.op = "add" => a \notin known) /\ (q.op = "resolve" => q.stage = "token")
    BY DEF Arrives
  <2>3. \/ q.op # "resolve" /\ q.stage = "write" /\ C \in {{Do("insertRow")}, UpdateCalls, {Do("deleteRow"), Do("listIds")}}
        \/ q.op = "resolve" /\ C = {Do("readToken")}
    BY DEF Arrives, Begin, CoreInv, TypeOK, Writes
  <2>4. Do("readToken") \notin UpdateCalls \cup {Do("insertRow"), Do("deleteRow"), Do("listIds")}
    BY <1>4 DEF UpdateCalls
  <2>5. \A X \in {{Do("insertRow")}, UpdateCalls, {Do("deleteRow"), Do("listIds")}} : X # {Do("readToken")}
    BY <2>4
  <2> QED
    BY <2>1, <2>2, <2>3, <2>5
<1>2. IdsOf(a)' = IdsOf(a)
  BY <1>1 DEF IdsOf
<1>3. IdsOf(a) = s.ids /\ access[a] = s.acc /\ (a \in row <=> s.row)
  <2>1. [row |-> a \in row, ids |-> IdsOf(a), acc |-> access[a]] = s
    BY DEF Exact
  <2>2. s.ids = IdsOf(a) /\ s.acc = access[a] /\ s.row = (a \in row)
    BY <2>1
  <2> QED
    BY <2>2
<1>5. C # {Do("readToken")} =>
        /\ Part(C, {"insertRow", "readIds", "listIds"}) # {}
        /\ Part(C, {"insertRow", "readAccess", "listIds", "dropAllIds", "listAccess"}) # {}
        /\ Part(C, RowKinds) # {}
  <2>1. CASE C = {Do("insertRow")}
    <3>1. Do("insertRow") \in C
      BY <2>1
    <3> QED
      BY <1>4, <3>1 DEF Part, RowKinds
  <2>2. CASE C = UpdateCalls
    <3>1. Do("updateRow") \in C /\ Do("readIds") \in C /\ Do("readAccess") \in C
      BY <2>2 DEF UpdateCalls
    <3> QED
      BY <1>4, <3>1 DEF Part, RowKinds
  <2>3. CASE C = {Do("deleteRow"), Do("listIds")}
    <3>1. Do("deleteRow") \in C /\ Do("listIds") \in C
      BY <2>3
    <3> QED
      BY <1>4, <3>1 DEF Part, RowKinds
  <2> QED
    BY <1>1, <2>1, <2>2, <2>3
<1>6. Drops(C) = {}
  <2>1. \A d \in C : d.do \notin {"dropIds", "dropAllIds"}
    BY <1>1, <1>4 DEF UpdateCalls
  <2> QED
    BY <2>1, NoDrops
<1>7. q.op = "add" => s = Nothing
  BY <1>1 DEF Fresh
<1> HIDE DEF C
<1>8. /\ IdsSoFar(q, C, s, IdsOf(a)) /\ AccessSoFar(q, C, s, access[a]) /\ RowSoFar(q, C, s, a \in row)
      /\ Read(q, C, s)
  BY <1>1, <1>3, <1>5, <1>7 DEF IdsSoFar, AccessSoFar, RowSoFar, Read
<1>9. SoFar(r)'
  BY <1>1, <1>2, <1>8 DEF SoFar, C
<1> QED
  BY <1>6, <1>9 DEF C

-----------------------------------------------------------------------------
(* The invariant is kept.                                                  *)

LEMMA SameSoFar ==
    ASSUME NEW s \in Requests, SoFar(s), UNCHANGED <<row, owner, access, said>>,
           req'[s] = req[s], calls'[s] = calls[s]
    PROVE  SoFar(s)'
<1>1. IdsOf(req[s].agent)' = IdsOf(req[s].agent)
  BY DEF IdsOf
<1> QED
  BY <1>1 DEF SoFar

LEMMA SameExact ==
    ASSUME NEW a, Exact(a), UNCHANGED <<row, owner, access, said>>
    PROVE  Exact(a)'
BY DEF Exact, IdsOf

\* Who writes is as it was.
LEMMA WritersStay ==
    ASSUME CoreInv, NEW r \in Requests, Goes(r)
    PROVE  /\ \A s \in Requests : req'[s].agent = req[s].agent /\ (Writes(req'[s]) <=> Writes(req[s]))
           /\ \A a \in Agents : Writing(a)' <=> Writing(a)
<1>1. \A s \in Requests : req'[s].agent = req[s].agent /\ req'[s].op = req[s].op
  BY OthersStay, GoesOn DEF Step, Goes
<1>2. \A s \in Requests : Writes(req'[s]) <=> Writes(req[s])
  BY <1>1 DEF Writes
<1> QED
  BY <1>1, <1>2 DEF Writing

LEMMA ApartGoes ==
    ASSUME CoreInv, NEW r \in Requests, Goes(r), Apart
    PROVE  Apart'
<1>1. \A s \in Requests : req'[s].agent = req[s].agent /\ (Writes(req'[s]) <=> Writes(req[s]))
  BY WritersStay
<1>2. ASSUME NEW s \in Requests, Writes(req[s])
      PROVE  Drops(calls'[s]) \subseteq IdsThen(req[s].agent)
  <2>1. Drops(calls[s]) \subseteq IdsOf(req[s].agent)
    BY <1>2 DEF Apart
  <2>2. CASE s = r
    BY <2>1, <2>2, GoesDrops
  <2>3. CASE s # r
    <3>1. calls'[s] = calls[s]
      BY <2>3, OthersStay DEF Step, Goes
    <3>2. req[s].agent \in Agents
      BY <1>2 DEF CoreInv, Names, TypeOK, Writes
    <3>3. IdsOf(req[s].agent) \subseteq IdsThen(req[s].agent)
      <4>1. CASE ~Writes(req[r])
        BY <4>1, InitLeaves DEF IdsOf, IdsThen
      <4>2. CASE Writes(req[r])
        <5>1. req[s].agent # req[r].agent
          BY <1>2, <2>3, <4>2 DEF Apart
        <5>2. OwnOnly(req[r].agent)
          BY <4>2, GoesDrops DEF Apart
        <5> QED
          BY <3>2, <5>1, <5>2, AgentAssumption DEF OwnOnly, IdsOf, IdsThen
      <4> QED
        BY <4>1, <4>2
    <3> QED
      BY <2>1, <3>1, <3>3
  <2> QED
    BY <2>2, <2>3
<1>3. \A s \in Requests : IdsOf(req[s].agent)' = IdsThen(req[s].agent)
  BY <1>1 DEF IdsOf, IdsThen
<1>4. \A s \in Requests : Writes(req'[s]) => Drops(calls'[s]) \subseteq IdsOf(req[s].agent)'
  BY <1>1, <1>2, <1>3
<1>5. \A s, t \in Requests : Writes(req'[s]) /\ Writes(req'[t]) /\ req'[s].agent = req'[t].agent => s = t
  BY <1>1 DEF Apart
<1> QED
  BY <1>4, <1>5 DEF Apart

LEMMA InStepGoes ==
    ASSUME CoreInv, NEW r \in Requests, Goes(r), Apart, InStep
    PROVE  InStep'
<1> DEFINE a == req[r].agent
<1>1. /\ \A s \in Requests : req'[s].agent = req[s].agent /\ (Writes(req'[s]) <=> Writes(req[s]))
      /\ \A b \in Agents : Writing(b)' <=> Writing(b)
  BY WritersStay
<1>2. /\ \A s \in Requests \ {r} : req'[s] = req[s] /\ calls'[s] = calls[s]
      /\ Step(r)
  BY OthersStay DEF Step, Goes
<1>3. Touches(r) /\ a \in Agents /\ broken \subseteq broken'
  BY GoesTouches DEF Touches
<1>4. said' = said
  BY GoesOn
<1>5. ~Writes(req[r]) => UNCHANGED <<row, owner, access, said>>
  BY <1>4, InitLeaves
<1>6. Writes(req[r]) => OwnOnly(a)
  BY GoesDrops DEF Apart
<1>7. ASSUME NEW s \in Requests, Writes(req'[s]), req'[s].agent \notin broken' PROVE SoFar(s)'
  <2>1. Writes(req[s]) /\ req[s].agent \notin broken' /\ req[s].agent \notin broken
    BY <1>1, <1>3, <1>7
  <2>2. SoFar(s)
    BY <2>1 DEF InStep
  <2>3. CASE s = r
    <3>1. Ready(r)
      BY <2>1, <2>2, <2>3 DEF Ready, InStep, Apart
    <3> QED
      BY <2>1, <2>3, <3>1, OwnSoFar DEF Goes
  <2>4. CASE s # r /\ ~Writes(req[r])
    BY <1>2, <1>5, <2>2, <2>4, SameSoFar
  <2>5. CASE s # r /\ Writes(req[r])
    <3>1. req[s].agent # a
      BY <2>1, <2>5 DEF Apart
    <3> QED
      BY <1>2, <1>3, <1>6, <2>1, <2>2, <2>5, <3>1, OtherSoFar
  <2> QED
    BY <2>3, <2>4, <2>5
<1>8. ASSUME NEW s \in Requests, req'[s].failed, req'[s].stage \in {"issuer", "write"}
      PROVE  req'[s].agent \in broken'
  <2>1. CASE s = r
    BY <1>1, <1>3, <1>8, <2>1, GoesOn DEF InStep
  <2>2. CASE s # r
    BY <1>2, <1>3, <1>8, <2>2 DEF InStep
  <2> QED
    BY <2>1, <2>2
<1>9. ASSUME NEW b \in Agents \ broken', ~Writing(b)' PROVE Exact(b)'
  <2>1. Exact(b)
    BY <1>1, <1>3, <1>9 DEF InStep
  <2>2. CASE ~Writes(req[r])
    BY <1>5, <2>1, <2>2, SameExact
  <2>3. CASE Writes(req[r])
    <3>1. b # a
      BY <1>1, <1>9, <2>3 DEF Writing
    <3> QED
      BY <1>3, <1>6, <2>1, <2>3, <3>1, OtherExact
  <2> QED
    BY <2>2, <2>3
<1> QED
  BY <1>7, <1>8, <1>9 DEF InStep

LEMMA ExactAnswer ==
    ASSUME CoreInv, NEW r \in Requests, Answer(r), Apart, InStep
    PROVE  Apart' /\ InStep'
<1> DEFINE q == req[r]
           a == q.agent
<1>1. /\ \A s \in Requests \ {r} : req'[s] = req[s] /\ calls'[s] = calls[s]
      /\ req'[r] = Idle /\ UNCHANGED <<row, owner, access, broken, known, raced>>
      /\ said' = IF q.failed THEN said ELSE [said EXCEPT ![a] = After(q, @)]
      /\ q.op # "none"
  BY DEF Answer, CoreInv, TypeOK, tables
<1>2. ~Writes(Idle) /\ Idle.failed = FALSE
  BY DEF Writes, Idle
<1>3. a \in Agents
  BY <1>1 DEF CoreInv, Names, TypeOK
<1>4. \A b \in Agents : b # a => said'[b] = said[b]
  BY <1>1, <1>3 DEF CoreInv, TypeOK
<1>5. ~Writes(q) => said' = said
  <2> HAVE ~Writes(q)
  <2>1. q.op = "init"
    BY <1>1 DEF Writes, CoreInv, TypeOK, Request
  <2>2. After(q, said[a]) = said[a]
    BY <2>1 DEF After
  <2> QED
    BY <1>1, <1>3, <2>2 DEF CoreInv, TypeOK
<1>6. Apart'
  <2>1. \A s \in Requests : Writes(req'[s]) => s # r /\ Writes(req[s]) /\ req'[s] = req[s] /\ calls'[s] = calls[s]
    BY <1>1, <1>2
  <2>2. \A s \in Requests : Writes(req'[s]) => Drops(calls'[s]) \subseteq IdsOf(req[s].agent)
    BY <2>1 DEF Apart
  <2>3. \A s \in Requests : Writes(req'[s]) => IdsOf(req[s].agent)' = IdsOf(req[s].agent)
    BY <1>1, <2>1 DEF IdsOf
  <2>4. \A s \in Requests : Writes(req'[s]) => Drops(calls'[s]) \subseteq IdsOf(req[s].agent)'
    BY <2>2, <2>3
  <2>5. \A s, t \in Requests : Writes(req'[s]) /\ Writes(req'[t]) /\ req'[s].agent = req'[t].agent => s = t
    BY <2>1 DEF Apart
  <2> QED
    BY <2>4, <2>5 DEF Apart
<1>7. Touches(r) /\ OwnOnly(a) /\ Step(r)
  BY <1>1, TouchesCalls DEF OwnOnly, Step, CoreInv
<1>8. ASSUME NEW s \in Requests, Writes(req'[s]), req'[s].agent \notin broken' PROVE SoFar(s)'
  <2>1. s # r
    BY <1>1, <1>2, <1>8
  <2>2. req'[s] = req[s] /\ calls'[s] = calls[s]
    BY <1>1, <2>1
  <2>3. SoFar(s) /\ Writes(req[s])
    BY <1>1, <1>8, <2>2 DEF InStep
  <2>4. CASE ~Writes(q)
    BY <1>1, <1>5, <2>2, <2>3, <2>4, SameSoFar
  <2>5. CASE Writes(q)
    <3>1. req[s].agent # a
      BY <2>1, <2>3, <2>5 DEF Apart
    <3> QED
      BY <1>3, <1>7, <2>1, <2>3, <3>1, OtherSoFar
  <2> QED
    BY <2>4, <2>5
<1>9. ASSUME NEW s \in Requests, req'[s].failed, req'[s].stage \in {"issuer", "write"}
      PROVE  req'[s].agent \in broken'
  <2>1. s # r
    BY <1>1, <1>2, <1>9
  <2> QED
    BY <1>1, <1>9, <2>1 DEF InStep
<1>10. ASSUME NEW b \in Agents \ broken', ~Writing(b)' PROVE Exact(b)'
  <2>1. CASE Writes(q) /\ b = a
    <3>1. SoFar(r) /\ a \notin broken
      BY <1>1, <1>10, <2>1 DEF InStep
    <3>2. Ready(r)
      BY <2>1, <3>1 DEF Ready, InStep, Apart
    <3> QED
      BY <2>1, <3>2, AnswerExact
  <2>2. CASE ~(Writes(q) /\ b = a)
    <3>1. ~Writing(b)
      <4>1. \A s \in Requests : ~(Writes(req'[s]) /\ req'[s].agent = b)
        BY <1>10 DEF Writing
      <4> QED
        BY <1>1, <2>2, <4>1 DEF Writing
    <3>2. Exact(b)
      BY <1>1, <1>10, <3>1 DEF InStep
    <3>3. CASE b # a
      BY <1>3, <1>7, <3>2, <3>3, OtherExact
    <3>4. CASE b = a
      BY <1>1, <1>5, <2>2, <3>2, <3>4, SameExact
    <3> QED
      BY <3>3, <3>4
  <2> QED
    BY <2>1, <2>2
<1>11. InStep'
  BY <1>8, <1>9, <1>10 DEF InStep
<1> QED
  BY <1>6, <1>11

LEMMA ExactArrives ==
    ASSUME CoreInv, Fresh, NEW r \in Requests, NEW q \in Request, Arrives(r, q), Apart, InStep, ~raced'
    PROVE  Apart' /\ InStep'
<1> PICK first : Begin(r, q, first)
  BY DEF Arrives
<1>1. /\ \A s \in Requests \ {r} : req'[s] = req[s] /\ calls'[s] = calls[s]
      /\ req'[r] = q /\ req[r] = Idle /\ UNCHANGED <<row, owner, access, broken, said>>
      /\ q.failed = FALSE /\ q.agent \in Agents
  BY DEF Arrives, Begin, CoreInv, TypeOK, tables
<1>2. ~Writes(Idle)
  BY DEF Writes, Idle
<1>3. Writes(q) => \A s \in Requests \ {r} : ~(Writes(req[s]) /\ req[s].agent = q.agent)
  BY DEF Begin
<1>4. Writes(q) => ~Writing(q.agent)
  BY <1>1, <1>2, <1>3 DEF Writing
<1>5. Writes(q) /\ q.agent \notin broken => SoFar(r)'
  BY <1>1, <1>4, ArriveSoFar DEF InStep
<1>6. Writes(q) => Drops(calls'[r]) = {}
  <2> HAVE Writes(q)
  <2>1. calls'[r] \in {{Do("insertRow")}, UpdateCalls, {Do("deleteRow"), Do("listIds")}, {Do("readToken")}}
    BY DEF Arrives, Begin, CoreInv, TypeOK, Writes
  <2>2. \A k \in Plain : Do(k).do = k
    BY Made
  <2>3. \A d \in calls'[r] : d.do \notin {"dropIds", "dropAllIds"}
    BY <2>1, <2>2 DEF UpdateCalls, Plain
  <2> QED
    BY <2>3, NoDrops
<1>7. Apart'
  <2>1. ASSUME NEW s \in Requests, Writes(req'[s]) PROVE Drops(calls'[s]) \subseteq IdsThen(req'[s].agent)
    <3>1. CASE s = r
      BY <1>1, <1>6, <2>1, <3>1
    <3>2. CASE s # r
      <4>1. Drops(calls[s]) \subseteq IdsOf(req[s].agent)
        BY <1>1, <2>1, <3>2 DEF Apart
      <4>2. IdsThen(req'[s].agent) = IdsOf(req[s].agent)
        BY <1>1, <3>2 DEF IdsOf, IdsThen
      <4> QED
        BY <1>1, <3>2, <4>1, <4>2
    <3> QED
      BY <3>1, <3>2
  <2>2. \A s, t \in Requests : Writes(req'[s]) /\ Writes(req'[t]) /\ req'[s].agent = req'[t].agent => s = t
    BY <1>1, <1>3 DEF Apart
  <2>3. \A s \in Requests : Writes(req'[s]) => Drops(calls'[s]) \subseteq IdsThen(req'[s].agent)
    BY <2>1
  <2> QED
    BY <2>2, <2>3 DEF Apart, IdsOf, IdsThen
<1>8. ASSUME NEW s \in Requests, Writes(req'[s]), req'[s].agent \notin broken' PROVE SoFar(s)'
  <2>1. CASE s = r
    BY <1>1, <1>5, <1>8, <2>1
  <2>2. CASE s # r
    <3>1. SoFar(s)
      BY <1>1, <1>8, <2>2 DEF InStep
    <3> QED
      BY <1>1, <2>2, <3>1, SameSoFar
  <2> QED
    BY <2>1, <2>2
<1>9. ASSUME NEW s \in Requests, req'[s].failed, req'[s].stage \in {"issuer", "write"}
      PROVE  req'[s].agent \in broken'
  <2>1. s # r
    BY <1>1, <1>9
  <2> QED
    BY <1>1, <1>9, <2>1 DEF InStep
<1>10. ASSUME NEW b \in Agents \ broken', ~Writing(b)' PROVE Exact(b)'
  <2>1. \A s \in Requests : ~(Writes(req'[s]) /\ req'[s].agent = b)
    BY <1>10 DEF Writing
  <2>2. ~Writing(b)
    BY <1>1, <1>2, <2>1 DEF Writing
  <2>3. Exact(b)
    BY <1>1, <1>10, <2>2 DEF InStep
  <2> QED
    BY <1>1, <2>3, SameExact
<1>11. InStep'
  BY <1>8, <1>9, <1>10 DEF InStep
<1> QED
  BY <1>7, <1>11

LEMMA FreshNext ==
    ASSUME CoreInv, Fresh, NEW r \in Requests, Step(r)
    PROVE  Fresh'
<1>1. CASE AddAgent(r) \/ UpdateAgent(r) \/ DeleteAgent(r) \/ InitAgent(r) \/ Resolve(r)
  <2> PICK q \in Request : Arrives(r, q)
    BY <1>1, ArrivesIs DEF CoreInv
  <2>1. UNCHANGED <<row, owner, access, broken, said>>
    BY DEF Arrives, Begin, tables
  <2>2. known \subseteq known'
    BY InitTableAlone DEF CoreInv
  <2> QED
    BY <2>1, <2>2 DEF Fresh
<1>2. CASE Goes(r) \/ Answer(r)
  <2>1. Touches(r)
    BY <1>2, TouchesRow, TouchesCalls DEF Goes, CoreInv
  <2>2. req[r].agent \in known
    BY <2>1 DEF Touches, CoreInv, Names
  <2>3. known' = known
    BY <2>1 DEF Touches
  <2>4. \A a \in Agents \ known : a \notin row' /\ access'[a] = {} /\ said'[a] = Nothing
    BY <2>1, <2>2 DEF Touches, Fresh
  <2>5. \A i \in Identities : owner'[i] \in known \cup {None}
    BY <2>1, <2>2 DEF Touches, Fresh
  <2>6. broken' \subseteq known
    BY <2>1, <2>2 DEF Touches, Fresh
  <2> QED
    BY <2>3, <2>4, <2>5, <2>6 DEF Fresh
<1> QED
  BY <1>1, <1>2 DEF Step, Goes

-----------------------------------------------------------------------------
(* The agents are what was said of them.                                   *)

ExactInv == Fresh /\ (~raced => Apart /\ InStep)

LEMMA ExactInit ==
    ASSUME Init
    PROVE  ExactInv
<1>1. ~Writes(Idle) /\ Idle.failed = FALSE /\ \A r \in Requests : req[r] = Idle
  BY DEF Init, Writes, Idle
<1>2. /\ \A a \in Agents : said[a] = [Nothing EXCEPT !.row = a \in Existing] /\ access[a] = {}
      /\ \A i \in Identities : owner[i] = None
      /\ row = Existing /\ known = Existing /\ broken = {}
  BY DEF Init
<1>3. \A a \in Agents : said[a] = [row |-> a \in Existing, ids |-> {}, acc |-> {}]
  BY <1>2 DEF Nothing
<1>4. Fresh
  <2>1. \A a \in Agents \ known : said[a] = Nothing
    <3> TAKE a \in Agents \ known
    <3>1. (a \in Existing) = FALSE
      BY <1>2
    <3> QED
      BY <1>3, <3>1 DEF Nothing
  <2> QED
    BY <1>2, <2>1 DEF Fresh
<1>5. \A a \in Agents : Exact(a)
  <2> TAKE a \in Agents
  <2>1. IdsOf(a) = {}
    BY <1>2, AgentAssumption DEF IdsOf
  <2> QED
    BY <1>2, <1>3, <2>1 DEF Exact
<1>6. Apart /\ InStep
  BY <1>1, <1>5 DEF Apart, InStep
<1> QED
  BY <1>4, <1>6 DEF ExactInv

LEMMA ExactStep ==
    ASSUME CoreInv, ExactInv, NEW r \in Requests, Step(r)
    PROVE  ExactInv'
<1>1. Fresh'
  BY FreshNext DEF ExactInv
<1>2. ASSUME ~raced' PROVE Apart' /\ InStep'
  <2>1. CASE AddAgent(r) \/ UpdateAgent(r) \/ DeleteAgent(r) \/ InitAgent(r) \/ Resolve(r)
    <3> PICK q \in Request : Arrives(r, q)
      BY <2>1, ArrivesIs DEF CoreInv
    <3>1. ~raced
      BY <1>2 DEF Arrives, Begin
    <3> QED
      BY <1>2, <3>1, ExactArrives DEF ExactInv
  <2>2. CASE Goes(r)
    <3>1. ~raced
      BY <1>2, <2>2, GoesOn
    <3> QED
      BY <2>2, <3>1, ApartGoes, InStepGoes DEF ExactInv
  <2>3. CASE Answer(r)
    <3>1. ~raced
      BY <1>2, <2>3 DEF Answer
    <3> QED
      BY <2>3, <3>1, ExactAnswer DEF ExactInv
  <2> QED
    BY <2>1, <2>2, <2>3 DEF Step, Goes
<1> QED
  BY <1>1, <1>2 DEF ExactInv

LEMMA ExactStutter ==
    ASSUME ExactInv, UNCHANGED vars
    PROVE  ExactInv'
<1>1. UNCHANGED <<row, owner, access, known, req, calls, said, broken, raced>>
  BY DEF vars, tables, ghosts
<1>2. \A a : IdsOf(a)' = IdsOf(a)
  BY <1>1 DEF IdsOf
<1>3. Fresh'
  BY <1>1 DEF ExactInv, Fresh
<1>4. Apart => Apart'
  BY <1>1 DEF Apart, IdsOf
<1>5. InStep => InStep'
  <2> HAVE InStep
  <2>1. \A s \in Requests : SoFar(s) => SoFar(s)'
    BY <1>1, SameSoFar
  <2>2. \A a \in Agents : Exact(a) => Exact(a)'
    BY <1>1, SameExact
  <2>3. \A a \in Agents : Writing(a)' <=> Writing(a)
    BY <1>1 DEF Writing
  <2> QED
    BY <1>1, <2>1, <2>2, <2>3 DEF InStep
<1> QED
  BY <1>1, <1>3, <1>4, <1>5 DEF ExactInv

\* Every request has written what it said but for the calls it has still to
\* make, and drops nothing of another agent.
THEOREM ExactHolds == Spec => []ExactInv
<1>1. Init => ExactInv
  BY ExactInit
<1>2. CoreInv /\ ExactInv /\ [Next]_vars => ExactInv'
  <2> SUFFICES ASSUME CoreInv, ExactInv, [Next]_vars PROVE ExactInv'
    OBVIOUS
  <2>1. CASE Next
    <3>1. PICK r \in Requests : Step(r)
      BY <2>1 DEF Next, Step
    <3> QED
      BY <3>1, ExactStep
  <2>2. CASE UNCHANGED vars
    BY <2>2, ExactStutter
  <2> QED
    BY <2>1, <2>2
<1> QED
  BY <1>1, <1>2, CoreHolds, PTL DEF Spec

\* As long as no two requests for one agent overlap, an agent of which every
\* request succeeded is, between its requests, exactly what they said, whatever
\* requests for other agents do, name its identities or fail half-way: every
\* request has written what it said but for the calls it has still to make, and
\* drops nothing of another agent.
THEOREM AgentsExact == Spec => []AgentExact
<1>1. ExactInv => AgentExact
  BY DEF ExactInv, InStep, Exact, AgentExact
<1> QED
  BY <1>1, ExactHolds, PTL

-----------------------------------------------------------------------------
(* The issuers.                                                            *)

\* The identities of Cli that an agent has, or a request is to give it, have
\* their issuers; one is deleted when the agent no longer has the identity.
IssuersThere ==
    /\ \A n \in Issued : LET t == tokens[n] IN t.cli # None /\ t.agent \notin broken =>
          /\ owner[t.cli] = t.agent => t.cli \in issuers
          /\ \A r \in Requests : LET q == req[r] IN
                /\ q.agent = t.agent /\ q.op # "delete" /\ q.ids # Keep /\ t.cli \in q.ids
                /\ (q.stage = "write" \/ t.cli # q.new)
                => t.cli \in issuers
    /\ \A r \in Requests : \A i \in Cli :
          With("deleteIssuer", {i}) \in calls[r] => owner[i] # req[r].agent

\* The request is about the same identities, at the same stage.
SameIds(r) ==
    req'[r].ids = req[r].ids /\ req'[r].new = req[r].new /\ req'[r].stage = req[r].stage

\* What the steps that have to do with issuers and identities do.
Deletes(r, i) ==
    /\ i \in Cli /\ With("deleteIssuer", {i}) \in calls[r]
    /\ issuers' = issuers \ {i} /\ owner' = owner /\ SameIds(r)
Takes(r, i) ==
    /\ i \in Identities /\ With("claim", {i}) \in calls[r] /\ owner[i] = None
    /\ owner' = [owner EXCEPT ![i] = req[r].agent] /\ issuers' = issuers /\ SameIds(r)
Leaves(r, i) ==
    i \in Identities /\ owner' = [owner EXCEPT ![i] = None] /\ issuers' = issuers /\ SameIds(r)
Reads(r) ==
    /\ issuers' = issuers /\ owner' = owner
    /\ \/ req[r].op = "delete" /\ req'[r].ids = IdsOf(req[r].agent)
       \/ req[r].op = "resolve" /\ req[r].stage = "get" /\ req'[r].ids = IdsOf(req[r].agent) \cup {req[r].new}
    /\ req'[r].new = req[r].new /\ req'[r].stage = req[r].stage
Passes(r) ==
    /\ owner' = owner /\ req'[r].ids = req[r].ids /\ req'[r].new = req[r].new
    /\ \/ req'[r].stage # "write" /\ issuers' = issuers
       \/ req[r].new \notin Cli /\ issuers' = issuers
       \/ req[r].op = "resolve" /\ req[r].new \in Cli /\ issuers' = issuers \cup {req[r].new}

LEMMA RefuseSame ==
    ASSUME CoreInv, NEW r \in Requests, NEW c \in calls[r], Refuse(r, c)
    PROVE  SameIds(r)
<1>1. req[r] \in Request
  BY DEF CoreInv, TypeOK
<1>2. req'[r] = [req[r] EXCEPT !.failed = TRUE]
  BY DEF Refuse, CoreInv, TypeOK
<1> QED
  BY <1>1, <1>2, Failed DEF SameIds

LEMMA GoesIssuers ==
    ASSUME CoreInv, NEW r \in Requests, Goes(r)
    PROVE  \/ SameIds(r) /\ UNCHANGED <<owner, issuers>>
           \/ \E i \in Identities : Deletes(r, i) \/ Takes(r, i) \/ Leaves(r, i)
           \/ Reads(r) \/ Passes(r)
<1> DEFINE q == req[r]
           a == q.agent
<1>0. /\ q \in Request /\ Placed(q) /\ Fits(q, calls[r]) /\ Cli \subseteq Identities
      /\ req' = req => SameIds(r)
  BY AgentAssumption DEF CoreInv, TypeOK, Control, SameIds
<1>1. \A c \in calls[r] : Refuse(r, c) => SameIds(r)
  BY RefuseSame
<1>2. CASE InsertRow(r) \/ UndoRow(r) \/ UpdateRow(r) \/ DeleteRow(r) \/ CheckRow(r) \/ GetRow(r)
  BY <1>0, <1>1, <1>2 DEF InsertRow, UndoRow, UpdateRow, DeleteRow, CheckRow, GetRow, OnRow
<1>3. CASE ReadIds(r)
  <2> PICK c \in calls[r] :
        /\ \/ req' = req
           \/ c.do = "listIds" /\ req' = [req EXCEPT ![r].ids = IdsOf(a)]
           \/ c.do = "getIds" /\ req' = [req EXCEPT ![r].ids = IdsOf(a) \cup {q.new}]
        /\ UNCHANGED <<owner, issuers>>
    BY <1>3 DEF ReadIds, tables
  <2>1. CASE c.do = "listIds" /\ req' = [req EXCEPT ![r].ids = IdsOf(a)]
    <3>1. q.op = "delete"
      BY <1>0, <2>1 DEF Fits, Allowed
    <3>2. req'[r].ids = IdsOf(a) /\ req'[r].new = q.new /\ req'[r].stage = q.stage
      BY <1>0, <2>1 DEF CoreInv, TypeOK, Request
    <3> QED
      BY <3>1, <3>2 DEF Reads
  <2>2. CASE c.do = "getIds" /\ req' = [req EXCEPT ![r].ids = IdsOf(a) \cup {q.new}]
    <3>1. q.op = "resolve" /\ q.stage = "get"
      BY <1>0, <2>2 DEF Fits, Allowed
    <3>2. req'[r].ids = IdsOf(a) \cup {q.new} /\ req'[r].new = q.new /\ req'[r].stage = q.stage
      BY <1>0, <2>2 DEF CoreInv, TypeOK, Request
    <3> QED
      BY <3>1, <3>2 DEF Reads
  <2> QED
    BY <1>0, <2>1, <2>2
<1>4. CASE Claim(r)
  <2> PICK c \in calls[r], i \in Identities :
        /\ c = With("claim", {i})
        /\ \/ owner[i] = None /\ owner' = [owner EXCEPT ![i] = a] /\ UNCHANGED req
           \/ Refuse(r, c) /\ UNCHANGED owner
        /\ UNCHANGED issuers
    BY <1>4 DEF Claim
  <2> QED
    BY <1>0, <1>1 DEF Takes
<1>5. CASE DropId(r)
  <2> PICK c \in calls[r] : /\ c.do \in {"dropIds", "dropAllIds"}
                            /\ \E i \in c.arg : owner' = [owner EXCEPT ![i] = None]
                            /\ UNCHANGED <<issuers, req>>
    BY <1>5 DEF DropId
  <2>1. c.arg \subseteq Identities
    BY <1>0 DEF Fits
  <2> QED
    BY <1>0, <2>1 DEF Leaves
<1>6. CASE ReadAccess(r)
  <2>1. (req' = req \/ \E x : req' = [req EXCEPT ![r].acc = x]) /\ UNCHANGED <<owner, issuers>>
    BY <1>6 DEF ReadAccess, tables
  <2>2. CASE \E x : req' = [req EXCEPT ![r].acc = x]
    BY <1>0, <2>1, <2>2 DEF CoreInv, TypeOK, Request, SameIds
  <2> QED
    BY <1>0, <2>1, <2>2
<1>7. CASE WriteAccess(r) \/ CheckIssuer(r) \/ PutToken(r) \/ ReadToken(r) \/ Fault(r)
  BY <1>0, <1>1, <1>7 DEF WriteAccess, CheckIssuer, PutToken, ReadToken, Fault, tables
<1>8. CASE DeleteIssuer(r)
  <2> PICK c \in calls[r], i \in Cli :
        /\ c = With("deleteIssuer", {i})
        /\ \/ issuers' = issuers \ {i} /\ UNCHANGED req
           \/ Refuse(r, c) /\ UNCHANGED issuers
        /\ UNCHANGED owner
    BY <1>8 DEF DeleteIssuer
  <2> QED
    BY <1>0, <1>1 DEF Deletes
<1>9. CASE DeleteToken(r)
  <2> PICK c \in calls[r] :
        /\ req' = [req EXCEPT ![r].stage = "get"] \/ Refuse(r, c)
        /\ UNCHANGED <<owner, issuers>>
    BY <1>9 DEF DeleteToken, tables
  <2>1. CASE req' = [req EXCEPT ![r].stage = "get"]
    <3>1. req'[r].ids = q.ids /\ req'[r].new = q.new /\ req'[r].stage # "write"
      BY <1>0, <2>1 DEF CoreInv, TypeOK, Request
    <3> QED
      BY <3>1 DEF Passes
  <2> QED
    BY <1>1, <2>1
<1>10. CASE GotAgent(r)
  <2>1. /\ \/ q.new \notin Cli /\ req' = [req EXCEPT ![r].stage = "write"]
           \/ req' = [req EXCEPT ![r].stage = "issuer"]
        /\ UNCHANGED <<owner, issuers>>
    BY <1>10 DEF GotAgent, tables
  <2>2. /\ req'[r].ids = q.ids /\ req'[r].new = q.new
        /\ q.new \notin Cli \/ req'[r].stage # "write"
    BY <1>0, <2>1 DEF CoreInv, TypeOK, Request
  <2> QED
    BY <2>1, <2>2 DEF Passes
<1>11. CASE AddIssuer(r)
  <2> PICK c \in calls[r] :
        /\ c = With("addIssuer", {q.new})
        /\ \/ issuers' = issuers \cup {q.new} /\ req' = [req EXCEPT ![r].stage = "write"]
           \/ Refuse(r, c) /\ UNCHANGED issuers
        /\ UNCHANGED owner
    BY <1>11 DEF AddIssuer
  <2>1. CASE issuers' = issuers \cup {q.new} /\ req' = [req EXCEPT ![r].stage = "write"]
    <3>1. q.op = "resolve" /\ q.stage = "issuer"
      BY <1>0, Made DEF Fits, Allowed
    <3>2. q.new \in Cli
      BY <3>1 DEF CoreInv, Names
    <3>3. req'[r].ids = q.ids /\ req'[r].new = q.new
      BY <1>0, <2>1 DEF CoreInv, TypeOK, Request
    <3> QED
      BY <2>1, <3>1, <3>2, <3>3 DEF Passes
  <2> QED
    BY <1>1, <2>1
<1> QED
  BY <1>2, <1>3, <1>4, <1>5, <1>6, <1>7, <1>8, <1>9, <1>10, <1>11 DEF Goes

\* An issuer is to be deleted once nobody has its identity.
LEMMA GoesDeletes ==
    ASSUME CoreInv, NEW r \in Requests, Goes(r), NEW i \in Cli, With("deleteIssuer", {i}) \in calls'[r]
    PROVE  With("deleteIssuer", {i}) \in calls[r] \/ (owner[i] = None /\ owner' = owner)
<1> DEFINE q == req[r]
           a == q.agent
           w == With("deleteIssuer", {i})
<1> SUFFICES ASSUME w \notin calls[r] PROVE owner[i] = None /\ owner' = owner
  OBVIOUS
<1>0. w.do = "deleteIssuer" /\ w.arg = {i}
  BY Made
<1>1. ASSUME NEW c \in calls[r], NEW STATE more, Succeed(r, c, more) PROVE w \in more
  <2>1. calls'[r] = (calls[r] \ {c}) \cup more
    BY <1>1, SucceedIs
  <2> QED
    BY <2>1
<1>2. ASSUME NEW c \in calls[r], Refuse(r, c) PROVE FALSE
  <2>1. PICK more \in {{}, {Do("undoRow")}} : calls'[r] = (calls[r] \ {c}) \cup more
    BY <1>2 DEF Refuse, CoreInv, TypeOK
  <2>2. Do("undoRow").do = "undoRow"
    BY Made DEF Plain
  <2> QED
    BY <1>0, <2>1, <2>2
<1>3. CASE InsertRow(r) \/ UndoRow(r) \/ UpdateRow(r) \/ DeleteRow(r) \/ CheckRow(r) \/ GetRow(r)
  <2>1. \E c \in calls[r] : \/ Refuse(r, c) \/ Succeed(r, c, AfterInsert(q))
                            \/ Succeed(r, c, {}) \/ Succeed(r, c, {Do("putToken")})
    BY <1>3 DEF InsertRow, UndoRow, UpdateRow, DeleteRow, CheckRow, GetRow, OnRow, AfterInsert
  <2>2. w \in AfterInsert(q) \/ w \in {} \/ w \in {Do("putToken")}
    BY <1>1, <1>2, <2>1
  <2>3. \A d \in AfterInsert(q) : d.do \in {"claim", "putAccess"}
    <3>1. \A x : With("claim", x).do = "claim" /\ With("putAccess", x).do = "putAccess"
      BY Made
    <3> QED
      BY <3>1 DEF AfterInsert
  <2>4. Do("putToken").do = "putToken"
    BY Made DEF Plain
  <2> QED
    BY <1>0, <2>2, <2>3, <2>4
<1>4. CASE ReadIds(r)
  <2> DEFINE I == IdsOf(a)
  <2>1. \E c \in calls[r] : \/ Succeed(r, c, ReplaceIds(I, q.ids))
                            \/ Succeed(r, c, IF I = {} THEN AfterDrop(a, {}) ELSE {With("dropAllIds", I)})
                            \/ Succeed(r, c, {})
    BY <1>4 DEF ReadIds
  <2>2. w \in ReplaceIds(I, q.ids) \/ w \in AfterDrop(a, {}) \/ w = With("dropAllIds", I)
    BY <1>1, <2>1
  <2>3. \A d \in ReplaceIds(I, q.ids) : d.do \in {"claim", "dropIds"}
    <3>1. \A x : With("claim", x).do = "claim" /\ With("dropIds", x).do = "dropIds"
      BY Made
    <3> HIDE DEF I
    <3> QED
      BY <3>1 DEF ReplaceIds
  <2>4. \A d \in AfterDrop(a, {}) : d.do \in {"listAccess", "checkIssuer"}
    BY AfterDropIs
  <2>5. With("dropAllIds", I).do = "dropAllIds"
    BY Made
  <2> HIDE DEF w
  <2> QED
    BY <1>0, <2>2, <2>3, <2>4, <2>5
<1>5. CASE Claim(r)
  BY <1>1, <1>2, <1>5 DEF Claim
<1>6. CASE DropId(r)
  <2> PICK c \in calls[r] : /\ c.do \in {"dropIds", "dropAllIds"}
                            /\ \E j \in c.arg : Succeed(r, c, AfterGone(r, c, j))
    BY <1>6 DEF DropId, AfterGone
  <2> PICK j \in c.arg : Succeed(r, c, AfterGone(r, c, j))
    OBVIOUS
  <2>1. w \in AfterGone(r, c, j)
    BY <1>1
  <2>2. \A m \in AfterGone(r, c, j) : m.do \in {c.do, "listAccess", "checkIssuer"}
    BY AfterGoneIs
  <2> QED
    BY <1>0, <2>1, <2>2
<1>7. CASE ReadAccess(r)
  <2> DEFINE X == access[a]
  <2>1. \E c \in calls[r] : \/ Succeed(r, c, ReplaceAccess(X, q.acc)) \/ Succeed(r, c, One("dropAccess", X))
                            \/ Succeed(r, c, {})
    BY <1>7 DEF ReadAccess, One
  <2>2. w \in ReplaceAccess(X, q.acc) \/ w \in One("dropAccess", X)
    BY <1>1, <2>1
  <2>3. \A d \in ReplaceAccess(X, q.acc) : d.do \in {"putAccess", "dropAccess"}
    BY Made DEF ReplaceAccess
  <2>4. \A d \in One("dropAccess", X) : d.do = "dropAccess"
    BY KindOne
  <2> HIDE DEF w
  <2> QED
    BY <1>0, <2>2, <2>3, <2>4
<1>8. CASE WriteAccess(r)
  <2> PICK c \in calls[r] :
        /\ c.do \in {"putAccess", "dropAccess"}
        /\ \E e \in c.arg : Succeed(r, c, IF c.arg = {e} THEN {} ELSE {With(c.do, c.arg \ {e})})
    BY <1>8 DEF WriteAccess
  <2> PICK e \in c.arg : Succeed(r, c, IF c.arg = {e} THEN {} ELSE {With(c.do, c.arg \ {e})})
    OBVIOUS
  <2>1. w \in {With(c.do, c.arg \ {e})}
    BY <1>1
  <2>2. With(c.do, c.arg \ {e}).do = c.do
    BY Made
  <2> HIDE DEF w
  <2> QED
    BY <1>0, <2>1, <2>2
<1>9. CASE CheckIssuer(r)
  <2> PICK c \in calls[r], j \in Cli :
        /\ Succeed(r, c, IF owner[j] = None THEN {With("deleteIssuer", {j})} ELSE {})
        /\ owner' = owner
    BY <1>9 DEF CheckIssuer, tables
  <2>1. owner[j] = None /\ w = With("deleteIssuer", {j})
    BY <1>1
  <2>2. With("deleteIssuer", {j}).arg = {j}
    BY Made
  <2> HIDE DEF w
  <2>3. i = j
    BY <1>0, <2>1, <2>2
  <2> QED
    BY <2>1, <2>3
<1>10. CASE DeleteIssuer(r) \/ PutToken(r) \/ ReadToken(r) \/ DeleteToken(r) \/ AddIssuer(r) \/ Fault(r)
  <2>1. \E c \in calls[r] :
           \/ Refuse(r, c) \/ Succeed(r, c, {}) \/ Succeed(r, c, UpdateCalls)
           \/ Succeed(r, c, {Do("getRow"), Do("getIds"), Do("getAccess")})
           \/ Succeed(r, c, {With("deleteToken", {token[a]})})
    <3>1. CASE DeleteIssuer(r)
      BY <3>1 DEF DeleteIssuer
    <3>2. CASE PutToken(r) \/ ReadToken(r) \/ Fault(r)
      BY <3>2 DEF PutToken, ReadToken, Fault
    <3>3. CASE DeleteToken(r) \/ AddIssuer(r)
      BY <3>3 DEF DeleteToken, AddIssuer
    <3> QED
      BY <1>10, <3>1, <3>2, <3>3
  <2>2. w \in UpdateCalls \cup {Do("getRow"), Do("getIds"), Do("getAccess")} \/ w = With("deleteToken", {token[a]})
    BY <1>1, <1>2, <2>1
  <2>3. \A d \in UpdateCalls \cup {Do("getRow"), Do("getIds"), Do("getAccess")} : d.do # "deleteIssuer"
    BY Made DEF UpdateCalls, Plain
  <2>4. With("deleteToken", {token[a]}).do = "deleteToken"
    BY Made
  <2> HIDE DEF w
  <2> QED
    BY <1>0, <2>2, <2>3, <2>4
<1>11. CASE GotAgent(r)
  <2>0. calls'[r] = {With("addIssuer", {q.new})} \/ calls'[r] = UpdateCalls
    BY <1>11 DEF GotAgent, CoreInv, TypeOK
  <2>1. w = With("addIssuer", {q.new}) \/ w \in UpdateCalls
    BY <2>0
  <2>2. With("addIssuer", {q.new}).do = "addIssuer"
    BY Made
  <2>3. \A d \in UpdateCalls : d.do # "deleteIssuer"
    BY Made DEF UpdateCalls, Plain
  <2> HIDE DEF w
  <2> QED
    BY <1>0, <2>1, <2>2, <2>3
<1> QED
  BY <1>3, <1>4, <1>5, <1>6, <1>7, <1>8, <1>9, <1>10, <1>11 DEF Goes

LEMMA TokensStay ==
    ASSUME CoreInv, NEW r \in Requests, Step(r)
    PROVE  TokensKept
<1>1. CASE PutToken(r)
  <2> PICK n \in Tokens \ Issued : \E t : tokens' = [tokens EXCEPT ![n] = t]
    BY <1>1 DEF PutToken
  <2>1. \A m \in Issued : tokens'[m] = tokens[m] /\ m \in Tokens /\ tokens[m].agent # None
    BY DEF Issued, CoreInv, TypeOK
  <2> QED
    BY <2>1 DEF TokensKept, Issued, Tokens
<1>2. CASE DeleteToken(r)
  BY <1>2 DEF DeleteToken, TokensKept, Issued, Tokens
<1>3. CASE UNCHANGED initTable
  BY <1>3, SameTokens
<1> QED
  BY <1>1, <1>2, <1>3, InitTableAlone DEF CoreInv

\* The identities of claims are those of the request.
LEMMA ClaimsIn ==
    ASSUME CoreInv, NEW r \in Requests, NEW i, With("claim", {i}) \in calls[r]
    PROVE  /\ req[r].ids # Keep /\ i \in req[r].ids
           /\ req[r].op # "delete" /\ req[r].stage = "write" /\ Writes(req[r])
<1> DEFINE w == With("claim", {i})
<1>1. w.do = "claim" /\ w.arg = {i}
  BY Made
<1> HIDE DEF w
<1>2. w \in calls[r]
  BY DEF w
<1>3. Placed(req[r]) /\ Fits(req[r], calls[r])
  BY DEF CoreInv, Control
<1>4. req[r].ids # Keep /\ \E j \in req[r].ids : w.arg = {j}
  BY <1>1, <1>2, <1>3 DEF Fits
<1>5. req[r].op \in {"add", "update", "resolve"} /\ req[r].stage = "write"
  BY <1>1, <1>2, <1>3 DEF Fits, Allowed, Placed
<1> QED
  BY <1>1, <1>4, <1>5 DEF Writes

LEMMA DeletesIn ==
    ASSUME CoreInv, NEW r \in Requests, NEW i, With("deleteIssuer", {i}) \in calls[r]
    PROVE  req[r].op = "delete" /\ Writes(req[r])
<1> DEFINE w == With("deleteIssuer", {i})
<1>1. w.do = "deleteIssuer"
  BY Made
<1> HIDE DEF w
<1>2. w \in calls[r]
  BY DEF w
<1>3. req[r].op = "delete"
  BY <1>1, <1>2 DEF CoreInv, Control, Fits, Allowed
<1> QED
  BY <1>3 DEF Writes

LEMMA UnusedGoes ==
    ASSUME CoreInv, NEW r \in Requests, Goes(r), NEW i \in Cli, Unused(i)
    PROVE  Unused(i)'
<1> DEFINE q == req[r]
           a == q.agent
<1>1. \A s \in Requests \ {r} : req'[s] = req[s]
  BY OthersStay DEF Step, Goes
<1>2. i \in Identities /\ a # None
  BY GoesTouches, AgentAssumption
<1>3. q.new # i /\ (q.ids # Keep => i \notin q.ids) /\ i \notin issuers /\ owner[i] = None
  BY DEF Unused
<1>4. i \notin IdsOf(a)
  BY <1>2, <1>3 DEF IdsOf
<1>5. i \notin issuers'
  BY <1>3, GoesIssuers DEF Deletes, Takes, Leaves, Reads, Passes
<1>6. owner'[i] = None
  <2>1. CASE UNCHANGED owner
    BY <1>3, <2>1
  <2>2. ASSUME NEW j \in Identities, Takes(r, j) PROVE owner'[i] = None
    <3>1. j # i
      BY <1>3, <2>2, ClaimsIn DEF Takes
    <3> QED
      BY <1>2, <1>3, <2>2, <3>1 DEF Takes, CoreInv, TypeOK
  <2>3. ASSUME NEW j \in Identities, Leaves(r, j) PROVE owner'[i] = None
    BY <1>2, <1>3, <2>3 DEF Leaves, CoreInv, TypeOK
  <2> QED
    BY <2>1, <2>2, <2>3, GoesIssuers DEF Deletes, Reads, Passes
<1>7. req'[r].new # i /\ (req'[r].ids # Keep => i \notin req'[r].ids)
  BY <1>3, <1>4, GoesIssuers DEF SameIds, Deletes, Takes, Leaves, Reads, Passes
<1>8. \A s \in Requests : req'[s].new # i /\ (req'[s].ids # Keep => i \notin req'[s].ids)
  BY <1>1, <1>7 DEF Unused
<1> QED
  BY <1>5, <1>6, <1>8 DEF Unused

LEMMA FromTokenNext ==
    ASSUME CoreInv, FromToken, NEW r \in Requests, Step(r)
    PROVE  FromToken'
<1>1. \A i \in Cli : (\E n \in Issued : tokens[n].cli = i) \/ Unused(i)
  BY DEF FromToken
<1>2. SUFFICES ASSUME NEW i \in Cli, ~\E n \in Issued' : tokens'[n].cli = i PROVE Unused(i)'
  BY DEF FromToken, Unused
<1>3. ~\E n \in Issued : tokens[n].cli = i
  BY <1>2, TokensStay DEF TokensKept
<1>4. Unused(i)
  BY <1>1, <1>3
<1>5. CASE AddAgent(r) \/ UpdateAgent(r) \/ DeleteAgent(r) \/ InitAgent(r) \/ Resolve(r)
  <2> PICK q \in Request : Arrives(r, q)
    BY <1>5, ArrivesIs DEF CoreInv
  <2>1. /\ UNCHANGED <<owner, issuers>>
        /\ \A s \in Requests : req'[s] = IF s = r THEN q ELSE req[s]
    BY DEF Arrives, Begin, tables, CoreInv, TypeOK
  <2>2. i \in Identities /\ i # None
    BY AgentAssumption
  <2>3. q.new # i
    BY <1>3, <2>2 DEF Arrives
  <2>4. q.ids # Keep => i \notin q.ids
    <3>1. i \notin Known
      BY <1>4 DEF Known, Unused
    <3> QED
      BY <3>1 DEF Arrives
  <2> QED
    BY <1>4, <2>1, <2>3, <2>4 DEF Unused
<1>6. CASE Goes(r)
  BY <1>4, <1>6, UnusedGoes
<1>7. CASE Answer(r)
  <2>1. /\ UNCHANGED <<owner, issuers>>
        /\ \A s \in Requests : req'[s] = IF s = r THEN Idle ELSE req[s]
    BY <1>7 DEF Answer, tables, CoreInv, TypeOK
  <2>2. Idle.new = None /\ Idle.ids = Keep
    BY DEF Idle
  <2>3. i # None
    BY AgentAssumption
  <2> QED
    BY <1>4, <2>1, <2>2, <2>3 DEF Unused
<1> QED
  BY <1>5, <1>6, <1>7 DEF Step, Goes

\* Request r is to give identity i to its agent, or has it to keep.
Gives(q, i) ==
    /\ q.op # "delete" /\ q.ids # Keep /\ i \in q.ids
    /\ (q.stage = "write" \/ i # q.new)

\* IssuersThere, for one token.
ThereFor(t) ==
    /\ owner[t.cli] = t.agent => t.cli \in issuers
    /\ \A r \in Requests : req[r].agent = t.agent /\ Gives(req[r], t.cli) => t.cli \in issuers

LEMMA ThereIs ==
    IssuersThere <=>
        /\ \A n \in Issued : tokens[n].cli # None /\ tokens[n].agent \notin broken => ThereFor(tokens[n])
        /\ \A r \in Requests : \A i \in Cli :
              With("deleteIssuer", {i}) \in calls[r] => owner[i] # req[r].agent
BY DEF IssuersThere, ThereFor, Gives

LEMMA ThereForGoes ==
    ASSUME CoreInv, IssuersThere, Apart, NEW r \in Requests, Goes(r),
           NEW n \in Issued, NEW t, t = tokens[n], t.cli # None, ThereFor(t)
    PROVE  /\ owner'[t.cli] = t.agent => t.cli \in issuers'
           /\ \A s \in Requests : req'[s].agent = t.agent /\ Gives(req'[s], t.cli) => t.cli \in issuers'
<1> DEFINE q == req[r]
           a == q.agent
           i == t.cli
<1>1. /\ i \in Cli /\ i \in Identities /\ t.agent \in Agents /\ t.agent # None
  BY AgentAssumption DEF CoreInv, TypeOK, Issued
<1>2. a \in Agents /\ a # None
  BY GoesTouches, AgentAssumption
<1>3. \A s \in Requests \ {r} : req'[s] = req[s]
  BY OthersStay DEF Step, Goes
<1>4. req'[r].op = q.op /\ req'[r].agent = a
  BY GoesOn
<1>5. /\ owner[i] = t.agent => i \in issuers
      /\ \A s \in Requests : req[s].agent = t.agent /\ Gives(req[s], i) => i \in issuers
  BY DEF ThereFor
<1>6. ASSUME NEW j \in Identities, Deletes(r, j)
      PROVE  i = j => /\ a = t.agent /\ owner[i] # a /\ q.op = "delete" /\ Writes(q)
  <2> HAVE i = j
  <2>1. PICK m \in Issued : tokens[m] = [agent |-> a, cli |-> i]
    BY <1>1, <1>6 DEF Deletes, CoreInv, Names
  <2>2. m = n
    BY <2>1 DEF CoreInv, InTurn
  <2>3. a = t.agent
    BY <2>1, <2>2
  <2>4. owner[i] # a
    BY <1>1, <1>6 DEF Deletes, IssuersThere
  <2>5. q.op = "delete" /\ Writes(q)
    BY <1>6, DeletesIn DEF Deletes
  <2> QED
    BY <2>3, <2>4, <2>5
<1>7. ASSUME owner'[i] = t.agent PROVE i \in issuers'
  <2>1. CASE owner' = owner /\ issuers \subseteq issuers'
    BY <1>5, <1>7, <2>1
  <2>2. ASSUME NEW j \in Identities, Deletes(r, j) PROVE i \in issuers'
    BY <1>5, <1>6, <1>7, <2>2 DEF Deletes
  <2>3. ASSUME NEW j \in Identities, Takes(r, j) PROVE i \in issuers'
    <3>1. CASE j = i
      <4>1. a = t.agent
        BY <1>1, <1>7, <2>3, <3>1 DEF Takes, CoreInv, TypeOK
      <4>2. Gives(q, i)
        BY <2>3, <3>1, ClaimsIn DEF Takes, Gives
      <4> QED
        BY <1>5, <2>3, <4>1, <4>2 DEF Takes
    <3>2. CASE j # i
      <4>1. owner'[i] = owner[i]
        BY <1>1, <2>3, <3>2 DEF Takes, CoreInv, TypeOK
      <4> QED
        BY <1>5, <1>7, <2>3, <4>1 DEF Takes
    <3> QED
      BY <3>1, <3>2
  <2>4. ASSUME NEW j \in Identities, Leaves(r, j) PROVE i \in issuers'
    <3>1. owner'[i] \in {owner[i], None}
      BY <1>1, <2>4 DEF Leaves, CoreInv, TypeOK
    <3> QED
      BY <1>1, <1>5, <1>7, <2>4, <3>1 DEF Leaves
  <2>5. CASE Reads(r) \/ Passes(r) \/ (SameIds(r) /\ UNCHANGED <<owner, issuers>>)
    BY <2>1, <2>5 DEF Reads, Passes
  <2> QED
    BY <2>2, <2>3, <2>4, <2>5, GoesIssuers
<1>8. ASSUME NEW s \in Requests, req'[s].agent = t.agent, Gives(req'[s], i) PROVE i \in issuers'
  <2>1. CASE s # r
    <3>1. i \in issuers /\ req[s].agent = t.agent /\ Gives(req[s], i)
      BY <1>3, <1>5, <1>8, <2>1
    <3>2. ASSUME NEW j \in Identities, Deletes(r, j), i = j PROVE FALSE
      <4>1. a = t.agent /\ Writes(q)
        BY <1>6, <3>2
      <4>2. req[s].op \in {"none", "add", "update", "delete", "init", "resolve"} /\ Placed(req[s])
        BY DEF CoreInv, TypeOK, Control, Request
      <4>3. req[s].op # "init" /\ req[s].op # "none"
        BY <3>1, <4>2 DEF Placed, Gives, Idle
      <4>4. Writes(req[s])
        BY <4>2, <4>3 DEF Writes
      <4> QED
        BY <2>1, <3>1, <4>1, <4>4 DEF Apart
    <3> QED
      BY <3>1, <3>2, GoesIssuers DEF Deletes, Takes, Leaves, Reads, Passes
  <2>2. CASE s = r
    <3>1. a = t.agent /\ Gives(req'[r], i)
      BY <1>4, <1>8, <2>2
    <3>2. CASE SameIds(r) /\ issuers' = issuers
      BY <1>4, <1>5, <3>1, <3>2 DEF SameIds, Gives
    <3>3. ASSUME NEW j \in Identities, Deletes(r, j) PROVE i \in issuers'
      <4>1. q.op = "delete"
        BY <3>3, DeletesIn DEF Deletes
      <4> QED
        BY <1>4, <3>1, <4>1 DEF Gives
    <3>4. CASE Reads(r)
      <4>1. i \in IdsOf(a)
        BY <1>4, <3>1, <3>4 DEF Reads, Gives
      <4> QED
        BY <1>5, <3>1, <3>4, <4>1 DEF Reads, IdsOf
    <3>5. CASE Passes(r)
      <4>1. CASE i = q.new
        BY <1>1, <3>1, <3>5, <4>1 DEF Passes, Gives
      <4>2. CASE i # q.new
        <5>1. Gives(q, i)
          BY <1>4, <3>1, <3>5, <4>2 DEF Passes, Gives
        <5> QED
          BY <1>5, <3>1, <3>5, <5>1 DEF Passes
      <4> QED
        BY <4>1, <4>2
    <3> QED
      BY <2>2, <3>2, <3>3, <3>4, <3>5, GoesIssuers DEF Takes, Leaves
  <2> QED
    BY <2>1, <2>2
<1> QED
  BY <1>7, <1>8

\* A token that is put is for an identity nobody has had to do with.
LEMMA ThereForNew ==
    ASSUME CoreInv, FromToken, NEW r \in Requests, Goes(r), NEW n \in Issued', n \notin Issued,
           NEW t, t = tokens'[n], t.cli # None
    PROVE  /\ owner'[t.cli] = t.agent => t.cli \in issuers'
           /\ \A s \in Requests : req'[s].agent = t.agent /\ Gives(req'[s], t.cli) => t.cli \in issuers'
<1>1. PutToken(r)
  <2>1. PutToken(r) \/ DeleteToken(r) \/ UNCHANGED initTable
    BY InitTableAlone DEF Step, Goes, CoreInv
  <2>2. UNCHANGED initTable => Issued' = Issued
    BY DEF initTable, Issued, Tokens
  <2>3. DeleteToken(r) => Issued' = Issued
    BY DEF DeleteToken, Issued, Tokens
  <2> QED
    BY <2>1, <2>2, <2>3
<1> PICK c \in calls[r], m \in Tokens \ Issued, cli \in {None} \cup Cli :
        /\ cli \notin {tokens[k].cli : k \in Issued} \ {None}
        /\ tokens' = [tokens EXCEPT ![m] = [agent |-> req[r].agent, cli |-> cli]]
        /\ UNCHANGED <<owner, issuers, req>>
  BY <1>1 DEF PutToken, tables
<1>2. n \in Tokens
  BY DEF Issued, Tokens
<1>3. n = m
  <2>1. n # m => tokens'[n] = tokens[n]
    BY <1>2 DEF CoreInv, TypeOK
  <2>2. tokens'[n].agent # None
    BY DEF Issued
  <2> QED
    BY <1>2, <2>1, <2>2 DEF Issued
<1>4. t = [agent |-> req[r].agent, cli |-> cli] /\ req[r].agent # None
  BY <1>2, <1>3, GoesTouches, AgentAssumption DEF CoreInv, TypeOK
<1>5. t.cli = cli /\ t.agent # None /\ cli \in Cli
  BY <1>4
<1>6. ~\E k \in Issued : tokens[k].cli = cli
  BY <1>5
<1>7. Unused(cli)
  BY <1>5, <1>6 DEF FromToken, Unused
<1> QED
  BY <1>5, <1>7 DEF Unused, Gives

\* The issuers that are to be deleted are those of identities the agent has not.
LEMMA GoneGoes ==
    ASSUME CoreInv, IssuersThere, Apart, NEW r \in Requests, Goes(r),
           NEW s \in Requests, NEW i \in Cli, With("deleteIssuer", {i}) \in calls'[s]
    PROVE  owner'[i] # req'[s].agent
<1> DEFINE a == req[r].agent
<1>1. i \in Identities /\ a \in Agents /\ a # None
  BY GoesTouches, AgentAssumption
<1>2. \A t \in Requests \ {r} : req'[t] = req[t] /\ calls'[t] = calls[t]
  BY OthersStay DEF Step, Goes
<1>3. req'[r].agent = a
  BY GoesOn
<1>4. \A t \in Requests : With("deleteIssuer", {i}) \in calls[t] => owner[i] # req[t].agent
  BY DEF IssuersThere
<1>5. ASSUME With("deleteIssuer", {i}) \in calls[s] PROVE owner'[i] # req'[s].agent
  <2>1. req'[s].agent = req[s].agent /\ owner[i] # req[s].agent
    BY <1>2, <1>3, <1>4, <1>5
  <2>2. req[s].op = "delete" /\ Writes(req[s]) /\ req[s].agent # None
    <3>1. req[s].op = "delete" /\ Writes(req[s])
      BY <1>5, DeletesIn
    <3>2. req[s].agent \in Agents
      BY <3>1 DEF CoreInv, Names, TypeOK
    <3> QED
      BY <3>1, <3>2, AgentAssumption
  <2>3. CASE owner' = owner
    BY <2>1, <2>3
  <2>4. ASSUME NEW j \in Identities, Takes(r, j) PROVE owner'[i] # req[s].agent
    <3>1. req[r].op # "delete" /\ Writes(req[r])
      BY <2>4, ClaimsIn DEF Takes
    <3>2. a # req[s].agent
      BY <2>2, <3>1 DEF Apart
    <3>3. owner'[i] \in {owner[i], a}
      BY <1>1, <2>4 DEF Takes, CoreInv, TypeOK
    <3> QED
      BY <2>1, <3>2, <3>3
  <2>5. ASSUME NEW j \in Identities, Leaves(r, j) PROVE owner'[i] # req[s].agent
    <3>1. owner'[i] \in {owner[i], None}
      BY <1>1, <2>5 DEF Leaves, CoreInv, TypeOK
    <3> QED
      BY <2>1, <2>2, <3>1
  <2> QED
    BY <2>1, <2>3, <2>4, <2>5, GoesIssuers DEF Deletes, Reads, Passes
<1>6. CASE With("deleteIssuer", {i}) \notin calls[s]
  <2>1. s = r
    BY <1>2, <1>6
  <2>2. owner'[i] = None
    BY <1>6, <2>1, GoesDeletes
  <2> QED
    BY <1>1, <1>3, <2>1, <2>2
<1> QED
  BY <1>5, <1>6

LEMMA IssuersGoes ==
    ASSUME CoreInv, FromToken, IssuersThere, Apart, NEW r \in Requests, Goes(r)
    PROVE  IssuersThere'
<1>1. Step(r) /\ broken \subseteq broken'
  BY GoesTouches DEF Step, Goes, Touches
<1>2. TokensKept
  BY <1>1, TokensStay
<1>3. ASSUME NEW n \in Issued', NEW t, t = tokens'[n], t.cli # None, t.agent \notin broken'
      PROVE  /\ owner'[t.cli] = t.agent => t.cli \in issuers'
             /\ \A s \in Requests : req'[s].agent = t.agent /\ Gives(req'[s], t.cli) => t.cli \in issuers'
  <2>1. CASE n \in Issued
    <3>1. t = tokens[n] /\ t.agent \notin broken
      BY <1>1, <1>2, <1>3, <2>1 DEF TokensKept
    <3>2. ThereFor(t)
      BY <1>3, <2>1, <3>1, ThereIs
    <3> QED
      BY <1>3, <2>1, <3>1, <3>2, ThereForGoes
  <2>2. CASE n \notin Issued
    BY <1>3, <2>2, ThereForNew
  <2> QED
    BY <2>1, <2>2
<1>4. \A s \in Requests : \A i \in Cli : With("deleteIssuer", {i}) \in calls'[s] => owner'[i] # req'[s].agent
  BY GoneGoes
<1> QED
  BY <1>3, <1>4 DEF IssuersThere, Gives

LEMMA IssuersArrives ==
    ASSUME CoreInv, IssuersThere, NEW r \in Requests, NEW q \in Request, Arrives(r, q)
    PROVE  IssuersThere'
<1>1. /\ UNCHANGED <<owner, issuers, broken, tokens>> /\ Issued' = Issued
      /\ \A s \in Requests \ {r} : req'[s] = req[s] /\ calls'[s] = calls[s]
      /\ req'[r] = q
  BY DEF Arrives, Begin, tables, initTable, Issued, Tokens, CoreInv, TypeOK
<1>2. q.ids # Keep => q.ids \subseteq Known
  BY DEF Arrives
<1>3. ASSUME NEW n \in Issued, tokens[n].cli # None, tokens[n].agent \notin broken,
             NEW s \in Requests, req'[s].agent = tokens[n].agent, Gives(req'[s], tokens[n].cli)
      PROVE  tokens[n].cli \in issuers
  <2>1. CASE s = r
    <3>1. tokens[n].cli \in Known /\ tokens[n].cli \in Cli
      BY <1>1, <1>2, <1>3, <2>1 DEF Gives, CoreInv, TypeOK, Issued
    <3> QED
      BY <3>1 DEF Known
  <2>2. CASE s # r
    BY <1>1, <1>3, <2>2 DEF IssuersThere, Gives
  <2> QED
    BY <2>1, <2>2
<1>4. ASSUME NEW s \in Requests, NEW i \in Cli, With("deleteIssuer", {i}) \in calls'[s]
      PROVE  owner[i] # req'[s].agent
  <2>1. With("deleteIssuer", {i}).do = "deleteIssuer"
    BY Made
  <2>2. CASE s = r
    <3>1. calls'[r] \in {{Do("insertRow")}, UpdateCalls, {Do("deleteRow"), Do("listIds")}, {Do("readToken")}, {Do("checkRow")}}
      BY DEF Arrives, Begin, CoreInv, TypeOK
    <3>2. \A k \in Plain : Do(k).do = k
      BY Made
    <3>3. \A d \in calls'[r] : d.do # "deleteIssuer"
      BY <3>1, <3>2 DEF UpdateCalls, Plain
    <3> QED
      BY <1>4, <2>1, <2>2, <3>3
  <2>3. CASE s # r
    BY <1>1, <1>4, <2>3 DEF IssuersThere
  <2> QED
    BY <2>2, <2>3
<1>5. \A n \in Issued : tokens[n].cli # None /\ tokens[n].agent \notin broken =>
         (owner[tokens[n].cli] = tokens[n].agent => tokens[n].cli \in issuers)
  BY DEF IssuersThere
<1> QED
  BY <1>1, <1>3, <1>4, <1>5 DEF IssuersThere, Gives

LEMMA IssuersAnswer ==
    ASSUME CoreInv, IssuersThere, NEW r \in Requests, Answer(r)
    PROVE  IssuersThere'
<1>1. /\ UNCHANGED <<owner, issuers, broken, tokens>> /\ Issued' = Issued
      /\ \A s \in Requests \ {r} : req'[s] = req[s] /\ calls'[s] = calls[s]
      /\ req'[r] = Idle /\ calls'[r] = {} /\ Idle.ids = Keep
  BY DEF Answer, tables, initTable, Issued, Tokens, CoreInv, TypeOK, Idle
<1>2. \A s \in Requests : \A i \in Cli : With("deleteIssuer", {i}) \in calls'[s] => owner[i] # req'[s].agent
  BY <1>1 DEF IssuersThere
<1>3. \A n \in Issued : tokens[n].cli # None /\ tokens[n].agent \notin broken =>
         /\ owner[tokens[n].cli] = tokens[n].agent => tokens[n].cli \in issuers
         /\ \A s \in Requests :
               req'[s].agent = tokens[n].agent /\ Gives(req'[s], tokens[n].cli) => tokens[n].cli \in issuers
  BY <1>1 DEF IssuersThere, Gives
<1> QED
  BY <1>1, <1>2, <1>3 DEF IssuersThere, Gives

IssuersInv == FromToken /\ (~raced => IssuersThere)

\* As long as no two requests for one agent overlap, the issuer of the identity
\* that a pki token gave an agent is there for as long as the agent has the
\* identity: the issuer is added before the identity is claimed, a deletion
\* looks for it only after it has dropped the identity, and nobody else can be
\* given the identity in between.
THEOREM IssuersStay == Spec => []CliIssuerThere
<1>1. Init => IssuersInv
  <2> SUFFICES ASSUME Init PROVE IssuersInv
    OBVIOUS
  <2>1. Issued = {}
    BY CoreInit
  <2>2. /\ issuers = {} /\ \A i \in Cli : owner[i] = None /\ i # None
        /\ \A r \in Requests : req[r] = Idle /\ calls[r] = {}
        /\ Idle.new = None /\ Idle.ids = Keep
    BY AgentAssumption DEF Init, Idle
  <2>3. FromToken
    BY <2>2 DEF FromToken, Unused
  <2>4. IssuersThere
    BY <2>1, <2>2 DEF IssuersThere
  <2> QED
    BY <2>3, <2>4 DEF IssuersInv
<1>2. CoreInv /\ ExactInv /\ IssuersInv /\ [Next]_vars => IssuersInv'
  <2> SUFFICES ASSUME CoreInv, ExactInv, IssuersInv, [Next]_vars PROVE IssuersInv'
    OBVIOUS
  <2>1. CASE Next
    <3>1. PICK r \in Requests : Step(r)
      BY <2>1 DEF Next, Step
    <3>2. FromToken'
      BY <3>1, FromTokenNext DEF IssuersInv
    <3>3. ASSUME ~raced' PROVE IssuersThere'
      <4>1. CASE AddAgent(r) \/ UpdateAgent(r) \/ DeleteAgent(r) \/ InitAgent(r) \/ Resolve(r)
        <5> PICK q \in Request : Arrives(r, q)
          BY <4>1, ArrivesIs DEF CoreInv
        <5>1. ~raced
          BY <3>3 DEF Arrives, Begin
        <5> QED
          BY <5>1, IssuersArrives DEF IssuersInv
      <4>2. CASE Goes(r)
        <5>1. ~raced
          BY <3>3, <4>2, GoesOn
        <5> QED
          BY <4>2, <5>1, IssuersGoes DEF IssuersInv, ExactInv
      <4>3. CASE Answer(r)
        <5>1. ~raced
          BY <3>3, <4>3 DEF Answer
        <5> QED
          BY <4>3, <5>1, IssuersAnswer DEF IssuersInv
      <4> QED
        BY <3>1, <4>1, <4>2, <4>3 DEF Step, Goes
    <3> QED
      BY <3>2, <3>3 DEF IssuersInv
  <2>2. CASE UNCHANGED vars
    <3>1. UNCHANGED <<owner, issuers, tokens, req, calls, broken, raced>> /\ Issued' = Issued
      BY <2>2 DEF vars, tables, initTable, ghosts, Issued, Tokens
    <3>2. FromToken'
      BY <3>1 DEF IssuersInv, FromToken, Unused
    <3>3. IssuersThere => IssuersThere'
      BY <3>1 DEF IssuersThere
    <3> QED
      BY <3>1, <3>2, <3>3 DEF IssuersInv
  <2> QED
    BY <2>1, <2>2
<1>3. IssuersInv => CliIssuerThere
  BY DEF IssuersInv, IssuersThere, CliIssuerThere
<1> QED
  BY <1>1, <1>2, <1>3, CoreHolds, ExactHolds, PTL DEF Spec

=============================================================================
