----------------------------- MODULE RunAsKeys -----------------------------
(***************************************************************************)
(* The keys that sign the tokens under which functions call the API back.  *)
(* Every process that signs (the API servers, the executor of scheduled    *)
(* functions) has a key pair of its own, publishes the public half in a    *)
(* DynamoDB table, and replaces the pair when a timer fires.  Every        *)
(* process that verifies keeps a cache of the table, and scans the table   *)
(* when it does not know a key.                                            *)
(*                                                                         *)
(* Keys are numbered as they are created.  One clock serves all processes; *)
(* it does not advance beyond what MaxPut and MaxLate allow.               *)
(***************************************************************************)
EXTENDS Naturals, FiniteSets

CONSTANTS
    Signers,        \* processes with a key store
    Verifiers,      \* processes with an issuer cache
    Requests,       \* verifications that may be under way at a time
    MaxKeyTtl, RekeyInterval, JwtValid,  \* the options of the key store
    MaxPut,         \* how long a put to DynamoDB may take, retries included
    MaxLate,        \* how late a timer may fire
    Lag,            \* how far behind an eventually consistent scan may be
    End,            \* bound: the clock stops here
    MaxKeys,        \* bound: keys in all
    MaxTokens,      \* bound: tokens in all
    MaxFaults       \* bound: failures and restarts

ASSUME ConstantsAssumption ==
    {MaxKeyTtl, RekeyInterval, JwtValid, MaxPut, MaxLate, Lag, End, MaxKeys, MaxTokens, MaxFaults}
        \subseteq Nat

\* What the options promise each other: when a key is replaced as late as it
\* may be, a token that it has just signed does not live longer than the key.
ASSUME MarginAssumption ==
    RekeyInterval + 2 * MaxPut + MaxLate + JwtValid <= MaxKeyTtl

VARIABLES
    now,
    made,       \* the keys created so far are 1..made
    born,       \* when each key was created
    public,     \* the keys in the table
    since,      \* when each of them came into the table
    key,        \* the key each signer signs with
    timer,      \* when each signer's timer is to fire
    putting,    \* the key each signer is writing to the table
    tokens,     \* the tokens handed out
    cache,      \* the keys each verifier remembers
    check,      \* what each request verifies
    faults,
    orphaned,   \* the keys whose replacement failed (nothing reads this)
    refused     \* the valid tokens refused, with the begin of the scan

signer == <<made, born, public, since, key, timer, putting, orphaned>>
verifier == <<cache, check, refused>>
vars == <<now, signer, tokens, verifier, faults>>

NoKey == 0
Idle == [at |-> "nowhere"]
Kids == 1..MaxKeys
Instants == 0..End

\* No timer is armed: none was, or it has fired.
NoTimer == End + RekeyInterval + 1

Ttl(k) == born[k] + MaxKeyTtl

Token == [kid : Kids, exp : 0..(End + JwtValid)]

Check == [at : Verifiers, token : Token, began : Instants]

TypeOK ==
    /\ now \in Instants
    /\ made \in 0..MaxKeys /\ born \in [Kids -> Instants]
    /\ public \in SUBSET Kids /\ since \in [Kids -> Instants]
    /\ key \in [Signers -> 0..MaxKeys] /\ putting \in [Signers -> 0..MaxKeys]
    /\ timer \in [Signers -> 0..NoTimer]
    /\ tokens \in SUBSET Token
    /\ cache \in [Verifiers -> SUBSET Kids]
    /\ check \in [Requests -> Check \cup {Idle}]
    /\ faults \in 0..MaxFaults
    /\ orphaned \in SUBSET Kids
    /\ refused \in SUBSET [token : Token, began : Instants]

Init ==
    /\ now = 0 /\ made = 0 /\ born = [k \in Kids |-> 0]
    /\ public = {} /\ since = [k \in Kids |-> 0]
    /\ key = [p \in Signers |-> NoKey]
    /\ timer = [p \in Signers |-> 0]
    /\ putting = [p \in Signers |-> NoKey]
    /\ tokens = {}
    /\ cache = [v \in Verifiers |-> {}]
    /\ check = [r \in Requests |-> Idle]
    /\ faults = 0 /\ orphaned = {} /\ refused = {}

-----------------------------------------------------------------------------
(* The key store.  Starting the process is its timer's first turn.         *)

\* Slip: the key is used while it is being put.
RekeyUsedAtOnce(p) ==
    /\ timer[p] <= now /\ made < MaxKeys
    /\ made' = made + 1
    /\ born' = [born EXCEPT ![made + 1] = now]
    /\ putting' = [putting EXCEPT ![p] = made + 1]
    /\ key' = [key EXCEPT ![p] = made + 1]
    /\ timer' = [timer EXCEPT ![p] = NoTimer]
    /\ UNCHANGED <<now, public, since, orphaned, tokens, verifier, faults>>

\* rekey: createKey, and the call of putItem.
Rekey(p) ==
    /\ timer[p] <= now /\ made < MaxKeys
    /\ made' = made + 1
    /\ born' = [born EXCEPT ![made + 1] = now]
    /\ putting' = [putting EXCEPT ![p] = made + 1]
    /\ timer' = [timer EXCEPT ![p] = NoTimer]
    /\ UNCHANGED <<now, public, since, key, orphaned, tokens, verifier, faults>>

\* The key being put is in the table.
Publish(p) ==
    /\ public' = public \cup {putting[p]}
    /\ since' = [since EXCEPT ![putting[p]] = now]

\* Slip: the timer is set to the last moment at which the key can sign.
PutDoneLastMoment(p) ==
    /\ putting[p] # NoKey
    /\ Publish(p)
    /\ key' = [key EXCEPT ![p] = putting[p]]
    /\ putting' = [putting EXCEPT ![p] = NoKey]
    /\ timer' = [timer EXCEPT ![p] = now + MaxKeyTtl - JwtValid]
    /\ UNCHANGED <<now, made, born, orphaned, tokens, verifier, faults>>

\* The put is answered: setKeyPair.
PutDone(p) ==
    /\ putting[p] # NoKey
    /\ Publish(p)
    /\ key' = [key EXCEPT ![p] = putting[p]]
    /\ putting' = [putting EXCEPT ![p] = NoKey]
    /\ timer' = [timer EXCEPT ![p] = now + RekeyInterval]
    /\ UNCHANGED <<now, made, born, orphaned, tokens, verifier, faults>>

\* The put fails, having written or not.  Nobody handles the rejection: the
\* old key stays, and no timer is armed.
PutFails(p) ==
    /\ putting[p] # NoKey /\ faults < MaxFaults
    /\ Publish(p) \/ UNCHANGED <<public, since>>
    /\ putting' = [putting EXCEPT ![p] = NoKey]
    /\ orphaned' = orphaned \cup ({key[p]} \ {NoKey})
    /\ faults' = faults + 1
    /\ UNCHANGED <<now, made, born, key, timer, tokens, verifier>>

\* The process is replaced by another one; a put under way may have written.
Restart(p) ==
    /\ faults < MaxFaults
    /\ \/ putting[p] # NoKey /\ Publish(p)
       \/ UNCHANGED <<public, since>>
    /\ key' = [key EXCEPT ![p] = NoKey]
    /\ timer' = [timer EXCEPT ![p] = now]
    /\ putting' = [putting EXCEPT ![p] = NoKey]
    /\ faults' = faults + 1
    /\ UNCHANGED <<now, made, born, tokens, verifier, orphaned>>

\* Slip: the token is given the life of a key.
SignKeyTtl(p) ==
    /\ Cardinality(tokens) < MaxTokens
    /\ key[p] # NoKey /\ Ttl(key[p]) >= now
    /\ tokens' = tokens \cup {[kid |-> key[p], exp |-> now + MaxKeyTtl]}
    /\ UNCHANGED <<now, signer, verifier, faults>>

\* signJwt.
Sign(p) ==
    /\ Cardinality(tokens) < MaxTokens
    /\ key[p] # NoKey /\ Ttl(key[p]) >= now
    /\ tokens' = tokens \cup {[kid |-> key[p], exp |-> now + JwtValid]}
    /\ UNCHANGED <<now, signer, verifier, faults>>

-----------------------------------------------------------------------------
(* The issuer cache.                                                       *)

Valid(t) == now < t.exp

\* findValid
Known(v, k) == k \in cache[v] /\ Ttl(k) >= now

\* findKey for a key that is not in the cache: refreshCache calls the scan.
\* With a key that is, nothing changes.
FindKey(r, v, t) ==
    /\ check[r] = Idle /\ t \in tokens /\ Valid(t) /\ ~Known(v, t.kid)
    /\ cache' = [cache EXCEPT ![v] = @ \ {t.kid}]
    /\ check' = [check EXCEPT ![r] = [at |-> v, token |-> t, began |-> now]]
    /\ UNCHANGED <<now, signer, tokens, faults, refused>>

\* What a scan that began at instant b may find: all that was in the table
\* Lag before, perhaps some of what came since, nothing that had expired.
Found(b) ==
    LET Live == {k \in public : Ttl(k) > b}
    IN {S \in SUBSET Live : {k \in Live : since[k] + Lag < b} \subseteq S}

\* The scan is answered: its result replaces the cache, and the key is looked
\* up once more.
Scanned(r) ==
    LET c == check[r] IN
    /\ c # Idle
    /\ check' = [check EXCEPT ![r] = Idle]
    /\ \E S \in Found(c.began) :
          /\ cache' = [cache EXCEPT ![c.at] = S]
          /\ refused' = IF Valid(c.token) /\ ~(c.token.kid \in S /\ Ttl(c.token.kid) >= now)
                        THEN refused \cup {[token |-> c.token, began |-> c.began]}
                        ELSE refused
    /\ UNCHANGED <<now, signer, tokens, faults>>

-----------------------------------------------------------------------------
\* No timer is later than MaxLate, and no put takes longer than MaxPut.
Tick ==
    /\ now < End
    /\ \A p \in Signers : /\ now < timer[p] + MaxLate
                          /\ putting[p] # NoKey => now < born[putting[p]] + MaxPut
    /\ now' = now + 1
    /\ UNCHANGED <<signer, tokens, verifier, faults>>

Next ==
    \/ \E p \in Signers : Rekey(p) \/ PutDone(p) \/ PutFails(p) \/ Restart(p) \/ Sign(p)
    \/ \E r \in Requests : \/ \E v \in Verifiers, t \in tokens : FindKey(r, v, t)
                           \/ Scanned(r)
    \/ Tick

Spec == Init /\ [][Next]_vars

-----------------------------------------------------------------------------
\* A token does not live longer than the key that signed it, so that the key
\* is still in the table when the token is verified: the key was replaced in
\* time, however late the timer fired and however long the put took.  Excused:
\* keys that were not replaced because the put failed.
TokenInKeyLife == \A t \in tokens : t.kid \in orphaned \/ t.exp <= Ttl(t.kid)

\* A valid token is refused only because its key came into the table less than
\* Lag before the scan: not because it was not published before it was used,
\* nor because another request's scan replaced the cache, nor because the
\* cache was filled too recently.
RefusedOnlyFresh ==
    \A x \in refused : \/ x.token.kid \in orphaned
                       \/ x.token.kid \in public /\ x.began <= since[x.token.kid] + Lag

=============================================================================
