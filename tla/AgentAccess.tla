---------------------------- MODULE AgentAccess ----------------------------
(***************************************************************************)
(* The users and clients of an account ("agents"), the identities by which *)
(* they authenticate, what they are allowed, and the initialization tokens *)
(* by which an agent gains an identity.  Each of these is an item of its   *)
(* own DynamoDB table, and there are no transactions: a request makes      *)
(* several calls at a time (Promise.all), each call is atomic, and the     *)
(* answer to one decides what is called next.  A request that meets an     *)
(* error answers with it and leaves its other calls running.               *)
(*                                                                         *)
(* Users and clients are handled by the same code (UserData and            *)
(* ClientData differ in the names of fields); the account exists.          *)
(***************************************************************************)
EXTENDS Naturals, FiniteSets

CONSTANTS
    Agents,         \* ids of users and clients, each given out once
    Identities,     \* pairs of an issuer and a subject
    Cli,            \* those whose issuer is made for a "pki" token, one each
    Entries,        \* permissions
    Existing,       \* agents there at first, with neither identities nor permissions
    Requests,       \* requests that may run at a time
    None,
    Keep,           \* the field is absent from the body: leave it as it is
    MaxRequests,    \* bound: requests in all
    MaxTokens,      \* bound: initialization tokens in all
    MaxFaults       \* bound: calls that fail for a reason of their own

ASSUME AgentAssumption ==
    /\ Cli \subseteq Identities /\ Existing \subseteq Agents
    /\ None \notin Agents \cup Identities
    /\ \A x \in (SUBSET Identities) \cup (SUBSET Entries) : x # Keep
    /\ MaxRequests \in Nat /\ MaxTokens \in Nat /\ MaxFaults \in Nat

VARIABLES
    row,        \* the agents in the user and client tables
    owner,      \* identity table: the agent an identity belongs to, or None
    access,     \* access table: the permissions of each agent
    issuers,    \* issuer table: the identities of Cli whose issuer is there
    token,      \* init table: the number of the agent's token, 0 for none
    tokens,     \* the tokens issued: agent, and identity of Cli or None
    known,      \* the agents whose id has been given out
    req,        \* what each request is about
    calls,      \* the calls each request has under way
    started, faults,
    said,       \* what the requests that succeeded say of each agent
    broken,     \* agents of which a request that writes failed
    raced,      \* two requests for one agent have overlapped
    passed      \* how many requests each token has let in

tables == <<row, owner, access, issuers>>
initTable == <<token, tokens, passed>>
ghosts == <<said, raced>>
vars == <<tables, initTable, known, req, calls, started, faults, broken, ghosts>>

Tokens == 1..MaxTokens
Issued == {n \in Tokens : tokens[n].agent # None}
NoToken == [agent |-> None, cli |-> None]

Call == [do : {"insertRow", "undoRow", "updateRow", "deleteRow", "readIds", "listIds",
               "claim", "dropIds", "dropAllIds", "readAccess", "listAccess", "putAccess",
               "dropAccess", "checkIssuer", "deleteIssuer", "addIssuer", "checkRow",
               "putToken", "readToken", "deleteToken", "getRow", "getIds", "getAccess"},
         arg : SUBSET (Identities \cup Entries \cup Tokens)]
Do(what) == [do |-> what, arg |-> {}]
With(what, x) == [do |-> what, arg |-> x]

Idle == [op |-> "none", agent |-> None, ids |-> Keep, acc |-> Keep, tok |-> 0,
         new |-> None, stage |-> "done", failed |-> FALSE]
Request == [op : {"none", "add", "update", "delete", "init", "resolve"},
            agent : Agents \cup {None}, ids : (SUBSET Identities) \cup {Keep},
            acc : (SUBSET Entries) \cup {Keep}, tok : 0..MaxTokens,
            new : Identities \cup {None}, stage : {"done", "token", "get", "issuer", "write"}, failed : BOOLEAN]

Nothing == [row |-> FALSE, ids |-> {}, acc |-> {}]

IdsOf(a) == {i \in Identities : owner[i] = a}

TypeOK ==
    /\ row \subseteq Agents /\ known \subseteq Agents
    /\ owner \in [Identities -> Agents \cup {None}]
    /\ access \in [Agents -> SUBSET Entries]
    /\ issuers \subseteq Cli
    /\ token \in [Agents -> 0..MaxTokens]
    /\ tokens \in [Tokens -> [agent : Agents \cup {None}, cli : Cli \cup {None}]]
    /\ req \in [Requests -> Request]
    /\ calls \in [Requests -> SUBSET Call]
    /\ started \in 0..MaxRequests /\ faults \in 0..MaxFaults
    /\ said \in [Agents -> [row : BOOLEAN, ids : SUBSET Identities, acc : SUBSET Entries]]
    /\ broken \subseteq Agents /\ raced \in BOOLEAN
    /\ passed \in [Tokens -> Nat]

Init ==
    /\ row = Existing /\ known = Existing /\ issuers = {}
    /\ owner = [i \in Identities |-> None]
    /\ access = [a \in Agents |-> {}]
    /\ token = [a \in Agents |-> 0]
    /\ tokens = [n \in Tokens |-> NoToken]
    /\ req = [r \in Requests |-> Idle] /\ calls = [r \in Requests |-> {}]
    /\ started = 0 /\ faults = 0
    /\ said = [a \in Agents |-> [Nothing EXCEPT !.row = a \in Existing]]
    /\ broken = {} /\ raced = FALSE
    /\ passed = [n \in Tokens |-> 0]

-----------------------------------------------------------------------------
(* Requests arrive.                                                        *)

Writes(q) == q.op \in {"add", "update", "delete", "resolve"}

\* A request for agent q.agent arrives and makes its first calls.
Begin(r, q, first) ==
    /\ req[r] = Idle /\ started < MaxRequests
    /\ started' = started + 1
    /\ req' = [req EXCEPT ![r] = q]
    /\ calls' = [calls EXCEPT ![r] = first]
    /\ raced' = (raced \/ /\ Writes(q)
                          /\ \E s \in Requests \ {r} : Writes(req[s]) /\ req[s].agent = q.agent)
    /\ UNCHANGED <<tables, initTable, faults, said, broken>>

\* Identities a body can name: that of a pki token is random, and known to
\* others once its issuer is there.
Known == (Identities \ Cli) \cup issuers

\* Ids of agents are random: adding never meets one that is there.
AddAgent(r) ==
    \E a \in Agents \ known, ids \in SUBSET Known, acc \in SUBSET Entries :
        /\ Begin(r, [Idle EXCEPT !.op = "add", !.agent = a, !.ids = ids, !.acc = acc,
                                 !.stage = "write"],
                 {Do("insertRow")})
        /\ known' = known \cup {a}

\* UserData.update sees to the row, the identities and the permissions at
\* once, whether or not there is a row.
UpdateCalls == {Do("updateRow"), Do("readIds"), Do("readAccess")}

UpdateAgent(r) ==
    \E a \in known, ids \in (SUBSET Known) \cup {Keep}, acc \in (SUBSET Entries) \cup {Keep} :
        /\ Begin(r, [Idle EXCEPT !.op = "update", !.agent = a, !.ids = ids, !.acc = acc,
                                 !.stage = "write"],
                 UpdateCalls)
        /\ UNCHANGED known

DeleteAgent(r) ==
    \E a \in known :
        /\ Begin(r, [Idle EXCEPT !.op = "delete", !.agent = a, !.stage = "write"],
                 {Do("deleteRow"), Do("listIds")})
        /\ UNCHANGED known

InitAgent(r) ==
    \E a \in known :
        /\ Cardinality(Issued) + Cardinality({s \in Requests : req[s].op = "init"}) < MaxTokens
        /\ Begin(r, [Idle EXCEPT !.op = "init", !.agent = a, !.stage = "token"],
                 {Do("checkRow")})
        /\ UNCHANGED known

\* A pki token names its identity; with oauth the access token does.
Resolve(r) ==
    \E n \in Issued, i \in Identities :
        /\ IF tokens[n].cli = None THEN i \notin Cli ELSE i = tokens[n].cli
        /\ Begin(r, [Idle EXCEPT !.op = "resolve", !.agent = tokens[n].agent, !.tok = n,
                                 !.new = i, !.stage = "token"],
                 {Do("readToken")})
        /\ UNCHANGED known

-----------------------------------------------------------------------------
(* Calls are answered.  An operator Succeed or Refuse says what follows.   *)

others == <<known, started, ghosts>>

\* Call c of request r has its answer and is followed by the calls in more.
Succeed(r, c, more) ==
    /\ calls' = [calls EXCEPT ![r] = (@ \ {c}) \cup more]
    /\ UNCHANGED <<others, faults, broken>>

\* Call c of request r fails: what was to follow it is not called.  Adding an
\* agent takes its row away at the first error after the row was made.
Refuse(r, c) ==
    LET q == req[r]
        undo == c.do \in {"claim", "putAccess"} /\ q.op = "add" /\ ~q.failed
    IN /\ calls' = [calls EXCEPT ![r] = (@ \ {c}) \cup (IF undo THEN {Do("undoRow")} ELSE {})]
       /\ req' = [req EXCEPT ![r].failed = TRUE]
       /\ broken' = IF q.stage \in {"issuer", "write"} THEN broken \cup {q.agent} ELSE broken
       /\ UNCHANGED others

\* Any call may fail for a reason of its own, and then has done nothing.
Fault(r) ==
    \E c \in calls[r] :
        /\ faults < MaxFaults
        /\ faults' = faults + 1
        /\ Refuse(r, c)
        /\ UNCHANGED <<tables, initTable>>

\* The call "what" of request r on the user or client table: new is the rows
\* after it, which exist before it when it is conditional on that.
OnRow(r, what, exists, new, more) ==
    \E c \in calls[r] :
        /\ c.do = what
        /\ IF exists => req[r].agent \in row
           THEN row' = new /\ Succeed(r, c, more) /\ UNCHANGED req
           ELSE Refuse(r, c) /\ UNCHANGED <<row, faults>>
        /\ UNCHANGED <<owner, access, issuers, initTable>>

InsertRow(r) ==
    LET q == req[r]
    IN OnRow(r, "insertRow", FALSE, row \cup {q.agent},
             {With("claim", {i}) : i \in q.ids}
               \cup (IF q.acc = {} THEN {} ELSE {With("putAccess", q.acc)}))
UndoRow(r)   == OnRow(r, "undoRow", TRUE, row \ {req[r].agent}, {})
UpdateRow(r) == OnRow(r, "updateRow", TRUE, row, {})
DeleteRow(r) == OnRow(r, "deleteRow", TRUE, row \ {req[r].agent}, {})
CheckRow(r)  == OnRow(r, "checkRow", TRUE, row, {Do("putToken")})
GetRow(r)    == OnRow(r, "getRow", TRUE, row, {})

\* What replaces the identities of agent a by ids, given those it has.
ReplaceIds(has, ids) ==
    IF ids = Keep THEN {}
    ELSE {With("claim", {i}) : i \in ids \ has}
           \cup (IF has \subseteq ids THEN {} ELSE {With("dropIds", has \ ids)})

ReplaceAccess(has, acc) ==
    IF acc = Keep THEN {}
    ELSE (IF acc \subseteq has THEN {} ELSE {With("putAccess", acc \ has)})
           \cup (IF has \subseteq acc THEN {} ELSE {With("dropAccess", has \ acc)})

\* What deleting an agent does once the identities it listed are gone: an
\* issuer made for one of the agent's pki tokens goes with its identity.
AfterDrop(a, listed) ==
    {Do("listAccess")} \cup {With("checkIssuer", {i}) :
        i \in {j \in listed \cap Cli : \E n \in Issued : tokens[n] = [agent |-> a, cli |-> j]}}

\* The consistent query for the identities of the request's agent.
ReadIds(r) ==
    \E c \in calls[r] :
        /\ LET q == req[r]
               has == IdsOf(q.agent)
           IN \/ /\ c.do = "readIds"
                 /\ Succeed(r, c, ReplaceIds(has, q.ids))
                 /\ UNCHANGED req
              \/ /\ c.do = "listIds"
                 /\ Succeed(r, c, IF has = {} THEN AfterDrop(q.agent, {})
                                  ELSE {With("dropAllIds", has)})
                 /\ req' = [req EXCEPT ![r].ids = has]
              \/ /\ c.do = "getIds"
                 /\ Succeed(r, c, {})
                 /\ req' = [req EXCEPT ![r].ids = has \cup {q.new}]
        /\ UNCHANGED <<tables, initTable>>

\* Slip: a put without the condition that nobody has the identity.
ClaimUnasked(r) ==
    \E c \in calls[r] : \E i \in Identities :
        /\ c = With("claim", {i})
        /\ owner' = [owner EXCEPT ![i] = req[r].agent] /\ Succeed(r, c, {})
        /\ UNCHANGED <<req, row, access, issuers, initTable>>

\* The conditional put of one identity.
Claim(r) ==
    \E c \in calls[r] : \E i \in Identities :
        /\ c = With("claim", {i})
        /\ IF owner[i] = None
           THEN owner' = [owner EXCEPT ![i] = req[r].agent] /\ Succeed(r, c, {}) /\ UNCHANGED req
           ELSE Refuse(r, c) /\ UNCHANGED <<owner, faults>>
        /\ UNCHANGED <<row, access, issuers, initTable>>

\* One item of a batch that deletes identities, by their key alone.
DropId(r) ==
    \E c \in calls[r] :
        /\ c.do \in {"dropIds", "dropAllIds"}
        /\ \E i \in c.arg :
              /\ owner' = [owner EXCEPT ![i] = None]
              /\ Succeed(r, c, IF c.arg # {i} THEN {With(c.do, c.arg \ {i})}
                               ELSE IF c.do = "dropAllIds" THEN AfterDrop(req[r].agent, req[r].ids)
                               ELSE {})
        /\ UNCHANGED <<row, access, issuers, initTable, req>>

ReadAccess(r) ==
    \E c \in calls[r] :
        /\ LET q == req[r]
               has == access[q.agent]
           IN \/ /\ c.do = "readAccess"
                 /\ Succeed(r, c, ReplaceAccess(has, q.acc))
                 /\ UNCHANGED req
              \/ /\ c.do = "listAccess"
                 /\ Succeed(r, c, IF has = {} THEN {} ELSE {With("dropAccess", has)})
                 /\ UNCHANGED req
              \/ /\ c.do = "getAccess"
                 /\ Succeed(r, c, {})
                 /\ req' = [req EXCEPT ![r].acc = IF has = {} THEN Keep ELSE has]
        /\ UNCHANGED <<tables, initTable>>

\* One item of a batch that puts or deletes permissions.
WriteAccess(r) ==
    \E c \in calls[r] :
        /\ c.do \in {"putAccess", "dropAccess"}
        /\ \E e \in c.arg :
              /\ access' = [access EXCEPT ![req[r].agent] =
                              IF c.do = "putAccess" THEN @ \cup {e} ELSE @ \ {e}]
              /\ Succeed(r, c, IF c.arg = {e} THEN {} ELSE {With(c.do, c.arg \ {e})})
        /\ UNCHANGED <<row, owner, issuers, initTable, req>>

\* deleteCliIdentityIssuer: the issuer goes unless an identity still uses it.
CheckIssuer(r) ==
    \E c \in calls[r] : \E i \in Cli :
        /\ c = With("checkIssuer", {i})
        /\ Succeed(r, c, IF owner[i] = None THEN {With("deleteIssuer", {i})} ELSE {})
        /\ UNCHANGED <<tables, initTable, req>>

DeleteIssuer(r) ==
    \E c \in calls[r] : \E i \in Cli :
        /\ c = With("deleteIssuer", {i})
        /\ IF i \in issuers
           THEN issuers' = issuers \ {i} /\ Succeed(r, c, {}) /\ UNCHANGED req
           ELSE Refuse(r, c) /\ UNCHANGED <<issuers, faults>>
        /\ UNCHANGED <<row, owner, access, initTable>>

-----------------------------------------------------------------------------
(* Initialization tokens.                                                  *)

\* The secret of a new token replaces that of an earlier one.
PutToken(r) ==
    \E c \in calls[r], n \in Tokens \ Issued, cli \in {None} \cup Cli :
        LET a == req[r].agent
        IN /\ c.do = "putToken"
           /\ \A m \in Tokens : m < n => m \in Issued
           /\ cli \notin {tokens[m].cli : m \in Issued} \ {None}
           /\ token' = [token EXCEPT ![a] = n]
           /\ tokens' = [tokens EXCEPT ![n] = [agent |-> a, cli |-> cli]]
           /\ Succeed(r, c, {})
           /\ UNCHANGED <<tables, passed, req>>

\* InitTable.get: the secret is read, then deleted if there (still) is one.
ReadToken(r) ==
    \E c \in calls[r] :
        /\ c.do = "readToken"
        /\ LET n == token[req[r].agent]
           IN IF n # 0 THEN Succeed(r, c, {With("deleteToken", {n})}) /\ UNCHANGED req
              ELSE Refuse(r, c) /\ UNCHANGED faults
        /\ UNCHANGED <<tables, initTable>>

\* Slip: the deletion does not ask whether the secret is still there.
DeleteTokenUnasked(r) ==
    \E c \in calls[r] :
        /\ c.do = "deleteToken"
        /\ LET q == req[r]
           IN /\ token' = [token EXCEPT ![q.agent] = 0]
              /\ IF c.arg = {q.tok}
                 THEN /\ passed' = [passed EXCEPT ![q.tok] = @ + 1]
                      /\ req' = [req EXCEPT ![r].stage = "get"]
                      /\ Succeed(r, c, {Do("getRow"), Do("getIds"), Do("getAccess")})
                 ELSE Refuse(r, c) /\ UNCHANGED <<passed, faults>>
        /\ UNCHANGED <<tables, tokens>>

\* The token is verified with the secret that was read, after the deletion.
DeleteToken(r) ==
    \E c \in calls[r] :
        /\ c.do = "deleteToken"
        /\ LET q == req[r]
           IN /\ token' = [token EXCEPT ![q.agent] = 0]
              /\ IF token[q.agent] # 0 /\ c.arg = {q.tok}
                 THEN /\ passed' = [passed EXCEPT ![q.tok] = @ + 1]
                      /\ req' = [req EXCEPT ![r].stage = "get"]
                      /\ Succeed(r, c, {Do("getRow"), Do("getIds"), Do("getAccess")})
                 ELSE Refuse(r, c) /\ UNCHANGED <<passed, faults>>
        /\ UNCHANGED <<tables, tokens>>

\* Slip: an issuer is added whatever the protocol.
GotAgentAlwaysIssuer(r) ==
    /\ req[r].stage = "get" /\ calls[r] = {} /\ ~req[r].failed
    /\ calls' = [calls EXCEPT ![r] = {With("addIssuer", {req[r].new})}]
    /\ req' = [req EXCEPT ![r].stage = "issuer"]
    /\ UNCHANGED <<tables, initTable, others, faults, broken>>

\* Slip: the agent is written without adding the issuer of a pki token.
GotAgentNoIssuer(r) ==
    LET q == req[r]
    IN /\ q.stage = "get" /\ calls[r] = {} /\ ~q.failed
       /\ calls' = [calls EXCEPT ![r] = UpdateCalls]
       /\ req' = [req EXCEPT ![r].stage = "write"]
       /\ UNCHANGED <<tables, initTable, others, faults, broken>>

\* The agent has been read: a pki token first adds the issuer of its keys;
\* then the agent is written whole, with the new identity.
GotAgent(r) ==
    LET q == req[r]
    IN /\ q.stage = "get" /\ calls[r] = {} /\ ~q.failed
       /\ IF q.new \in Cli
          THEN /\ calls' = [calls EXCEPT ![r] = {With("addIssuer", {q.new})}]
               /\ req' = [req EXCEPT ![r].stage = "issuer"]
          ELSE /\ calls' = [calls EXCEPT ![r] = UpdateCalls]
               /\ req' = [req EXCEPT ![r].stage = "write"]
       /\ UNCHANGED <<tables, initTable, others, faults, broken>>

AddIssuer(r) ==
    \E c \in calls[r] :
        /\ c = With("addIssuer", {req[r].new})
        /\ IF req[r].new \notin issuers
           THEN /\ issuers' = issuers \cup {req[r].new}
                /\ req' = [req EXCEPT ![r].stage = "write"]
                /\ Succeed(r, c, UpdateCalls)
           ELSE Refuse(r, c) /\ UNCHANGED <<issuers, faults>>
        /\ UNCHANGED <<row, owner, access, initTable>>

-----------------------------------------------------------------------------
\* What an agent should be after request q, when it was s before.
After(q, s) ==
    CASE q.op = "add"     -> [row |-> TRUE, ids |-> q.ids, acc |-> q.acc]
      [] q.op = "update"  -> [row |-> TRUE, ids |-> IF q.ids = Keep THEN s.ids ELSE q.ids,
                                            acc |-> IF q.acc = Keep THEN s.acc ELSE q.acc]
      [] q.op = "delete"  -> Nothing
      [] q.op = "resolve" -> [s EXCEPT !.ids = @ \cup {q.new}]
      [] OTHER            -> s

\* The last call has been answered.
Answer(r) ==
    LET q == req[r]
    IN /\ q.op # "none" /\ calls[r] = {} /\ (q.stage = "get" => q.failed)
       /\ said' = IF q.failed THEN said ELSE [said EXCEPT ![q.agent] = After(q, @)]
       /\ req' = [req EXCEPT ![r] = Idle]
       /\ UNCHANGED <<tables, initTable, known, calls, started, faults, broken, raced>>

Next ==
    \E r \in Requests :
        \/ AddAgent(r) \/ UpdateAgent(r) \/ DeleteAgent(r) \/ InitAgent(r) \/ Resolve(r)
        \/ InsertRow(r) \/ UndoRow(r) \/ UpdateRow(r) \/ DeleteRow(r) \/ CheckRow(r) \/ GetRow(r)
        \/ ReadIds(r) \/ Claim(r) \/ DropId(r) \/ ReadAccess(r) \/ WriteAccess(r)
        \/ CheckIssuer(r) \/ DeleteIssuer(r) \/ AddIssuer(r)
        \/ PutToken(r) \/ ReadToken(r) \/ DeleteToken(r) \/ GotAgent(r)
        \/ Fault(r) \/ Answer(r)

Spec == Init /\ [][Next]_vars

-----------------------------------------------------------------------------
Writing(a) == \E r \in Requests : Writes(req[r]) /\ req[r].agent = a

\* As long as no two requests for one agent overlap, an agent of which every
\* request succeeded is, between its requests, exactly what they said: it has
\* the identities and permissions it was last given and those its tokens
\* added, and a deleted agent leaves nothing by which anybody could
\* authenticate.  This holds whatever requests for OTHER agents do at the same
\* time, name its identities, or fail half-way.
AgentExact ==
    ~raced => \A a \in Agents \ broken : ~Writing(a) =>
        [row |-> a \in row, ids |-> IdsOf(a), acc |-> access[a]] = said[a]

\* A token lets in one request.  Reading its secret and deleting it are two
\* calls, and the second asks only that some secret is there: that two
\* requests are let in takes a newer token of the agent, put between the two,
\* which is lost by it.
TokenSingleUse ==
    \A n \in Issued : passed[n] > 1 => \E m \in Issued : m > n /\ tokens[m].agent = tokens[n].agent

\* Under the same condition the identity that a pki token gave an agent can
\* be used: its issuer, which holds the key, is there as long as the agent has
\* the identity, and a deletion removes the issuer only after the identity.
CliIssuerThere ==
    ~raced => \A n \in Issued :
        LET t == tokens[n]
        IN t.cli # None /\ t.agent \notin broken /\ owner[t.cli] = t.agent => t.cli \in issuers

=============================================================================
