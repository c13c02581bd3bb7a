-------------------------- MODULE RunAsKeysProofs --------------------------
(***************************************************************************)
(* For any number of signers, verifiers, keys and faults, and any options  *)
(* that keep the margin: no token lives longer than its key, and a valid   *)
(* token is refused only when the scan may have been too early to see its  *)
(* key.                                                                    *)
(*                                                                         *)
(* The invariant follows the time that a key has been in use (Timely): its *)
(* timer is due at most MaxPut + RekeyInterval after the key's creation,   *)
(* and when it has fired the successor was created at most MaxLate after   *)
(* that and is published at most MaxPut later.                             *)
(***************************************************************************)
EXTENDS RunAsKeys, TLAPS

\* Keys in use have been created, and were in the table before they were used.
Numbered ==
    /\ \A p \in Signers : key[p] <= made /\ putting[p] <= made
    /\ \A p \in Signers : key[p] # NoKey => key[p] \in public
    /\ \A t \in tokens : t.kid <= made /\ t.kid \in public

\* The latest time at which the timer of key k is due.
Last(k) == born[k] + MaxPut + RekeyInterval

InUse(p) ==
    /\ now <= timer[p] + MaxLate
    /\ putting[p] # NoKey => timer[p] = NoTimer /\ now <= born[putting[p]] + MaxPut
    /\ key[p] # NoKey /\ key[p] \notin orphaned =>
           IF putting[p] = NoKey THEN timer[p] <= Last(key[p])
                                 ELSE born[putting[p]] <= Last(key[p]) + MaxLate

Timely == \A p \in Signers : InUse(p)

\* A request's token was handed out, and nothing is later than now.
Checks ==
    /\ \A r \in Requests : check[r] # Idle => check[r].token \in tokens /\ check[r].began <= now
    /\ \A k \in public : since[k] <= now

IInv == TypeOK /\ Numbered /\ Timely /\ Checks /\ TokenInKeyLife /\ RefusedOnlyFresh

USE DEF NoKey

-----------------------------------------------------------------------------
LEMMA Numbers ==
    /\ MaxKeyTtl \in Nat /\ RekeyInterval \in Nat /\ JwtValid \in Nat
    /\ MaxPut \in Nat /\ MaxLate \in Nat /\ Lag \in Nat
    /\ End \in Nat /\ MaxKeys \in Nat /\ MaxFaults \in Nat
    /\ RekeyInterval + 2 * MaxPut + MaxLate + JwtValid <= MaxKeyTtl
BY ConstantsAssumption, MarginAssumption

LEMMA InitIInv ==
    ASSUME Init PROVE IInv
<1>. USE Numbers
<1>1. TypeOK
    BY DEF Init, TypeOK, Kids, Instants, NoTimer
<1>2. Numbered /\ Checks
    BY DEF Init, Numbered, Checks
<1>3. Timely
    BY DEF Init, Timely, InUse
<1>4. TokenInKeyLife /\ RefusedOnlyFresh
    BY DEF Init, TokenInKeyLife, RefusedOnlyFresh
<1>. QED
    BY <1>1, <1>2, <1>3, <1>4 DEF IInv

-----------------------------------------------------------------------------
(* A key that can still sign a token in time.                              *)
LEMMA InTime ==
    ASSUME IInv, NEW p \in Signers, key[p] # NoKey, key[p] \notin orphaned
    PROVE  now + JwtValid <= Ttl(key[p])
<1>1. now \in Nat /\ key[p] \in Kids /\ born[key[p]] \in Nat /\ timer[p] \in Nat
    BY Numbers DEF IInv, TypeOK, Kids, Instants, NoTimer
<1>2. CASE putting[p] = NoKey
    BY <1>1, <1>2, Numbers DEF IInv, Timely, InUse, Last, Ttl
<1>3. CASE putting[p] # NoKey
    <2>1. born[putting[p]] \in Nat
        BY <1>3, Numbers DEF IInv, TypeOK, Kids, Instants
    <2>2. now <= born[putting[p]] + MaxPut /\ born[putting[p]] <= Last(key[p]) + MaxLate
        BY <1>3 DEF IInv, Timely, InUse
    <2>. QED
        BY <1>1, <2>1, <2>2, Numbers DEF Last, Ttl
<1>. QED
    BY <1>2, <1>3

-----------------------------------------------------------------------------
(* The steps of the signers.                                               *)
LEMMA RekeyStep ==
    ASSUME IInv, NEW p \in Signers, Rekey(p) PROVE IInv'
<1>. USE Numbers
<1>. DEFINE k == made + 1
<1>1. k \in Kids /\ now \in Instants /\ made \in Nat
    BY DEF IInv, TypeOK, Rekey, Kids
<1>2. TypeOK'
    <2>1. made' \in 0..MaxKeys /\ born' \in [Kids -> Instants]
        BY <1>1 DEF IInv, TypeOK, Rekey, Kids
    <2>2. putting' \in [Signers -> 0..MaxKeys] /\ timer' \in [Signers -> 0..NoTimer]
        BY <1>1 DEF IInv, TypeOK, Rekey, Kids, NoTimer
    <2>. QED
        BY <2>1, <2>2 DEF IInv, TypeOK, Rekey, verifier
<1>3. Numbered'
    <2>1. ASSUME NEW q \in Signers PROVE key'[q] <= made' /\ putting'[q] <= made'
        <3>1. key[q] \in Nat /\ key[q] <= made /\ putting[q] \in Nat /\ putting[q] <= made
            BY DEF IInv, TypeOK, Numbered
        <3>2. putting'[q] = putting[q] \/ putting'[q] = k
            BY DEF IInv, TypeOK, Rekey
        <3>. QED
            BY <1>1, <3>1, <3>2 DEF Rekey
    <2>2. ASSUME NEW t \in tokens PROVE t.kid <= made'
        BY <1>1, <2>2 DEF IInv, TypeOK, Numbered, Token, Kids, Rekey
    <2>. QED
        BY <2>1, <2>2 DEF IInv, Numbered, Rekey
<1>4. \A j \in Kids : j <= made => born'[j] = born[j]
    BY <1>1 DEF IInv, TypeOK, Rekey, Kids
<1>5. ASSUME NEW q \in Signers, q # p PROVE InUse(q)'
    <2>1. timer'[q] = timer[q] /\ putting'[q] = putting[q] /\ key' = key /\ now' = now
        BY <1>5 DEF IInv, TypeOK, Rekey
    <2>2. putting[q] # NoKey => born'[putting[q]] = born[putting[q]]
        BY <1>4 DEF IInv, TypeOK, Numbered, Kids
    <2>3. key[q] # NoKey => born'[key[q]] = born[key[q]]
        BY <1>4 DEF IInv, TypeOK, Numbered, Kids
    <2>. QED
        BY <2>1, <2>2, <2>3 DEF IInv, Timely, InUse, Last, Rekey
<1>6. InUse(p)'
    <2>1. timer'[p] = NoTimer /\ putting'[p] = k /\ born'[k] = now /\ timer[p] <= now
        BY <1>1 DEF IInv, TypeOK, Rekey
    <2>2. now \in Nat /\ now <= End /\ putting[p] = NoKey
        BY <1>1, <2>1 DEF IInv, TypeOK, Timely, InUse, Instants, NoTimer, Rekey
    <2>3. key[p] # NoKey => born'[key[p]] = born[key[p]] /\ born[key[p]] \in Nat
        BY <1>4 DEF IInv, TypeOK, Numbered, Kids, Instants
    <2>4. now <= timer[p] + MaxLate /\ timer[p] \in Nat
        BY DEF IInv, TypeOK, Timely, InUse, NoTimer
    <2>5. now' = now /\ key' = key /\ orphaned' = orphaned /\ k # NoKey
        BY <1>1 DEF Rekey
    <2>6. key[p] # NoKey /\ key[p] \notin orphaned => now <= Last(key[p])' + MaxLate
        BY <2>2, <2>3, <2>4, <2>5 DEF IInv, Timely, InUse, Last
    <2>. QED
        BY <2>1, <2>2, <2>5, <2>6 DEF InUse, NoTimer
<1>7. Checks' /\ RefusedOnlyFresh'
    BY DEF IInv, Checks, RefusedOnlyFresh, Rekey, verifier
<1>8. TokenInKeyLife'
    BY <1>4 DEF IInv, TypeOK, Numbered, TokenInKeyLife, Token, Ttl, Rekey
<1>. QED
    BY <1>2, <1>3, <1>5, <1>6, <1>7, <1>8 DEF IInv, Timely

\* What the answer of a put does to the table.
LEMMA PublishStep ==
    ASSUME IInv, NEW p \in Signers, putting[p] # NoKey, Publish(p), now' = now,
           made' = made, tokens' = tokens, check' = check, refused' = refused
    PROVE  /\ public' \in SUBSET Kids /\ since' \in [Kids -> Instants]
           /\ public \subseteq public' /\ putting[p] \in public'
           /\ \A k \in public : since[k] <= since'[k]
           /\ Checks'
<1>1. putting[p] \in Kids /\ now \in Instants /\ now \in Nat
    BY Numbers DEF IInv, TypeOK, Kids, Instants
<1>2. public' \in SUBSET Kids /\ since' \in [Kids -> Instants]
    BY <1>1 DEF IInv, TypeOK, Publish
<1>3. public \subseteq public' /\ putting[p] \in public'
    BY DEF Publish
<1>4. ASSUME NEW k \in public'
      PROVE  since'[k] = now \/ (k \in public /\ since'[k] = since[k])
    <2>1. k \in Kids /\ (k = putting[p] \/ k \in public)
        BY <1>2 DEF Publish
    <2>2. since' = [since EXCEPT ![putting[p]] = now] /\ since \in [Kids -> Instants]
        BY DEF IInv, TypeOK, Publish
    <2>3. CASE k = putting[p]
        BY <1>1, <2>1, <2>2, <2>3
    <2>4. CASE k # putting[p]
        BY <2>1, <2>2, <2>4
    <2>. QED
        BY <2>3, <2>4
<1>5. \A k \in public : since[k] \in Nat /\ since[k] <= now
    BY Numbers DEF IInv, TypeOK, Checks, Kids, Instants
<1>6. \A k \in public : since[k] <= since'[k]
    BY <1>1, <1>3, <1>4, <1>5
<1>7. \A k \in public' : since'[k] <= now
    BY <1>1, <1>4, <1>5
<1>8. Checks'
    BY <1>7 DEF IInv, Checks
<1>. QED
    BY <1>2, <1>3, <1>6, <1>8

\* A later entry into the table leaves what was refused explained.
LEMMA StillFresh ==
    ASSUME IInv, since' \in [Kids -> Instants], public \subseteq public',
           \A k \in public : since[k] <= since'[k],
           orphaned \subseteq orphaned', refused' = refused
    PROVE  RefusedOnlyFresh'
<1>. SUFFICES ASSUME NEW x \in refused, x.token.kid \notin orphaned
              PROVE  x.token.kid \in public' /\ x.began <= since'[x.token.kid] + Lag
    BY DEF RefusedOnlyFresh
<1>1. x.token.kid \in public /\ x.began <= since[x.token.kid] + Lag
    BY DEF IInv, RefusedOnlyFresh
<1>2. x.began \in Nat /\ since[x.token.kid] \in Nat /\ since'[x.token.kid] \in Nat
    <2>1. x.token.kid \in Kids /\ since \in [Kids -> Instants]
        BY <1>1 DEF IInv, TypeOK
    <2>2. x.began \in Instants
        BY DEF IInv, TypeOK
    <2>. QED
        BY <2>1, <2>2, Numbers DEF Instants
<1>3. since[x.token.kid] <= since'[x.token.kid]
    BY <1>1
<1>. QED
    BY <1>1, <1>2, <1>3, Numbers

LEMMA PutDoneStep ==
    ASSUME IInv, NEW p \in Signers, PutDone(p) PROVE IInv'
<1>. USE Numbers
<1>1. /\ putting[p] # NoKey /\ Publish(p) /\ now' = now /\ made' = made /\ born' = born
      /\ key' = [key EXCEPT ![p] = putting[p]]
      /\ putting' = [putting EXCEPT ![p] = NoKey]
      /\ timer' = [timer EXCEPT ![p] = now + RekeyInterval]
      /\ orphaned' = orphaned /\ tokens' = tokens /\ faults' = faults
      /\ cache' = cache /\ check' = check /\ refused' = refused
    BY DEF PutDone, verifier
<1>2. /\ public' \in SUBSET Kids /\ since' \in [Kids -> Instants]
      /\ public \subseteq public' /\ putting[p] \in public'
      /\ \A k \in public : since[k] <= since'[k]
      /\ Checks'
    BY <1>1, PublishStep
<1>3. TypeOK'
    <2>1. key' \in [Signers -> 0..MaxKeys] /\ putting' \in [Signers -> 0..MaxKeys]
        BY <1>1 DEF IInv, TypeOK
    <2>2. timer' \in [Signers -> 0..NoTimer]
        <3>1. now + RekeyInterval \in 0..NoTimer
            BY DEF IInv, TypeOK, Instants, NoTimer
        <3>. QED
            BY <1>1, <3>1 DEF IInv, TypeOK
    <2>. QED
        BY <1>1, <1>2, <2>1, <2>2 DEF IInv, TypeOK
<1>4. Numbered'
    <2>1. ASSUME NEW q \in Signers
          PROVE  /\ key'[q] <= made /\ putting'[q] <= made
                 /\ key'[q] # NoKey => key'[q] \in public'
        BY <1>1, <1>2 DEF IInv, TypeOK, Numbered
    <2>. QED
        BY <1>1, <1>2, <2>1 DEF IInv, Numbered
<1>5. ASSUME NEW q \in Signers, q # p PROVE InUse(q)'
    <2>1. timer'[q] = timer[q] /\ putting'[q] = putting[q] /\ key'[q] = key[q]
        BY <1>1, <1>5 DEF IInv, TypeOK
    <2>. QED
        BY <1>1, <2>1 DEF IInv, Timely, InUse, Last
<1>6. InUse(p)'
    <2>1. timer'[p] = now + RekeyInterval /\ putting'[p] = NoKey /\ key'[p] = putting[p]
        BY <1>1 DEF IInv, TypeOK
    <2>2. now \in Nat /\ born[putting[p]] \in Nat /\ now <= born[putting[p]] + MaxPut
        BY <1>1 DEF IInv, TypeOK, Timely, InUse, Instants, Kids
    <2>. QED
        BY <1>1, <2>1, <2>2 DEF InUse, Last
<1>7. TokenInKeyLife'
    BY <1>1 DEF IInv, TokenInKeyLife, Ttl
<1>8. RefusedOnlyFresh'
    BY <1>1, <1>2, StillFresh
<1>. QED
    BY <1>2, <1>3, <1>4, <1>5, <1>6, <1>7, <1>8 DEF IInv, Timely

LEMMA PutFailsStep ==
    ASSUME IInv, NEW p \in Signers, PutFails(p) PROVE IInv'
<1>. USE Numbers
<1>1. /\ putting[p] # NoKey /\ (Publish(p) \/ UNCHANGED <<public, since>>)
      /\ now' = now /\ made' = made /\ born' = born /\ key' = key /\ timer' = timer
      /\ putting' = [putting EXCEPT ![p] = NoKey]
      /\ orphaned' = orphaned \cup ({key[p]} \ {NoKey}) /\ tokens' = tokens
      /\ faults < MaxFaults /\ faults' = faults + 1
      /\ cache' = cache /\ check' = check /\ refused' = refused
    BY DEF PutFails, verifier
<1>2. /\ public' \in SUBSET Kids /\ since' \in [Kids -> Instants]
      /\ public \subseteq public'
      /\ \A k \in public : since[k] <= since'[k]
      /\ Checks'
    <2>1. CASE Publish(p)
        BY <1>1, <2>1, PublishStep
    <2>2. CASE UNCHANGED <<public, since>>
        BY <1>1, <2>2 DEF IInv, TypeOK, Checks, Kids, Instants
    <2>. QED
        BY <1>1, <2>1, <2>2
<1>3. TypeOK'
    <2>1. putting' \in [Signers -> 0..MaxKeys] /\ faults' \in 0..MaxFaults
        BY <1>1 DEF IInv, TypeOK
    <2>2. orphaned' \in SUBSET Kids
        <3>1. key[p] # NoKey => key[p] \in Kids
            BY DEF IInv, TypeOK, Kids
        <3>. QED
            BY <1>1, <3>1 DEF IInv, TypeOK
    <2>. QED
        BY <1>1, <1>2, <2>1, <2>2 DEF IInv, TypeOK
<1>4. Numbered'
    <2>1. ASSUME NEW q \in Signers PROVE putting'[q] <= made
        BY <1>1 DEF IInv, TypeOK, Numbered
    <2>. QED
        BY <1>1, <1>2, <2>1 DEF IInv, Numbered
<1>5. ASSUME NEW q \in Signers PROVE InUse(q)'
    <2>1. CASE q # p
        BY <1>1, <2>1 DEF IInv, TypeOK, Timely, InUse, Last
    <2>2. CASE q = p
        <3>1. putting'[q] = NoKey /\ (key[q] = NoKey \/ key[q] \in orphaned')
            BY <1>1, <2>2 DEF IInv, TypeOK
        <3>. QED
            BY <1>1, <3>1 DEF IInv, Timely, InUse
    <2>. QED
        BY <2>1, <2>2
<1>6. TokenInKeyLife'
    BY <1>1 DEF IInv, TokenInKeyLife, Ttl
<1>7. RefusedOnlyFresh'
    BY <1>1, <1>2, StillFresh
<1>. QED
    BY <1>2, <1>3, <1>4, <1>5, <1>6, <1>7 DEF IInv, Timely

LEMMA RestartStep ==
    ASSUME IInv, NEW p \in Signers, Restart(p) PROVE IInv'
<1>. USE Numbers
<1>1. /\ (putting[p] # NoKey /\ Publish(p)) \/ UNCHANGED <<public, since>>
      /\ now' = now /\ made' = made /\ born' = born
      /\ key' = [key EXCEPT ![p] = NoKey] /\ timer' = [timer EXCEPT ![p] = now]
      /\ putting' = [putting EXCEPT ![p] = NoKey]
      /\ orphaned' = orphaned /\ tokens' = tokens
      /\ faults < MaxFaults /\ faults' = faults + 1
      /\ cache' = cache /\ check' = check /\ refused' = refused
    BY DEF Restart, verifier
<1>2. /\ public' \in SUBSET Kids /\ since' \in [Kids -> Instants]
      /\ public \subseteq public'
      /\ \A k \in public : since[k] <= since'[k]
      /\ Checks'
    <2>1. CASE putting[p] # NoKey /\ Publish(p)
        BY <1>1, <2>1, PublishStep
    <2>2. CASE UNCHANGED <<public, since>>
        BY <1>1, <2>2 DEF IInv, TypeOK, Checks, Kids, Instants
    <2>. QED
        BY <1>1, <2>1, <2>2
<1>3. TypeOK'
    <2>1. /\ key' \in [Signers -> 0..MaxKeys] /\ putting' \in [Signers -> 0..MaxKeys]
          /\ faults' \in 0..MaxFaults
        BY <1>1 DEF IInv, TypeOK
    <2>2. timer' \in [Signers -> 0..NoTimer]
        BY <1>1 DEF IInv, TypeOK, Instants, NoTimer
    <2>. QED
        BY <1>1, <1>2, <2>1, <2>2 DEF IInv, TypeOK
<1>4. Numbered'
    <2>1. ASSUME NEW q \in Signers
          PROVE  /\ key'[q] <= made /\ putting'[q] <= made
                 /\ key'[q] # NoKey => key'[q] \in public'
        BY <1>1, <1>2 DEF IInv, TypeOK, Numbered
    <2>. QED
        BY <1>1, <1>2, <2>1 DEF IInv, Numbered
<1>5. ASSUME NEW q \in Signers PROVE InUse(q)'
    <2>1. CASE q # p
        <3>1. timer'[q] = timer[q] /\ putting'[q] = putting[q] /\ key'[q] = key[q]
            BY <1>1, <2>1 DEF IInv, TypeOK
        <3>. QED
            BY <1>1, <3>1 DEF IInv, Timely, InUse, Last
    <2>2. CASE q = p
        <3>1. timer'[q] = now /\ putting'[q] = NoKey /\ key'[q] = NoKey /\ now \in Nat
            BY <1>1, <2>2 DEF IInv, TypeOK, Instants
        <3>. QED
            BY <1>1, <3>1 DEF InUse
    <2>. QED
        BY <2>1, <2>2
<1>6. TokenInKeyLife'
    BY <1>1 DEF IInv, TokenInKeyLife, Ttl
<1>7. RefusedOnlyFresh'
    BY <1>1, <1>2, StillFresh
<1>. QED
    BY <1>2, <1>3, <1>4, <1>5, <1>6, <1>7 DEF IInv, Timely

\* What only the tokens, the checks or the clock change leaves the signers.
LEMMA SignStep ==
    ASSUME IInv, NEW p \in Signers, Sign(p) PROVE IInv'
<1>. USE Numbers
<1>. DEFINE t == [kid |-> key[p], exp |-> now + JwtValid]
<1>1. /\ key[p] # NoKey /\ tokens' = tokens \cup {t}
      /\ UNCHANGED <<now, made, born, public, since, key, timer, putting, orphaned,
                     cache, check, refused, faults>>
    BY DEF Sign, signer, verifier
<1>2. t \in Token
    BY <1>1 DEF IInv, TypeOK, Token, Kids, Instants
<1>3. TypeOK'
    BY <1>1, <1>2 DEF IInv, TypeOK
<1>4. Numbered' /\ Checks'
    BY <1>1 DEF IInv, Numbered, Checks
<1>5. Timely'
    BY <1>1 DEF IInv, Timely, InUse, Last
<1>6. TokenInKeyLife'
    <2>1. t.kid \in orphaned \/ t.exp <= Ttl(t.kid)
        BY <1>1, InTime
    <2>. QED
        BY <1>1, <2>1 DEF IInv, TokenInKeyLife, Ttl
<1>7. RefusedOnlyFresh'
    BY <1>1 DEF IInv, RefusedOnlyFresh
<1>. QED
    BY <1>3, <1>4, <1>5, <1>6, <1>7 DEF IInv

-----------------------------------------------------------------------------
(* The steps of the verifiers, and of the clock.                           *)
LEMMA FindKeyStep ==
    ASSUME IInv, NEW r \in Requests, NEW v \in Verifiers, NEW t \in tokens, FindKey(r, v, t)
    PROVE  IInv'
<1>. USE Numbers
<1>. DEFINE c == [at |-> v, token |-> t, began |-> now]
<1>1. /\ cache' = [cache EXCEPT ![v] = @ \ {t.kid}] /\ check' = [check EXCEPT ![r] = c]
      /\ UNCHANGED <<now, made, born, public, since, key, timer, putting, orphaned,
                     tokens, refused, faults>>
    BY DEF FindKey, signer
<1>2. TypeOK'
    <2>1. c \in Check
        BY DEF IInv, TypeOK, Check
    <2>2. cache' \in [Verifiers -> SUBSET Kids]
        BY <1>1 DEF IInv, TypeOK
    <2>. QED
        BY <1>1, <2>1, <2>2 DEF IInv, TypeOK
<1>3. Checks'
    <2>1. ASSUME NEW q \in Requests PROVE check'[q] = check[q] \/ check'[q] = c
        BY <1>1 DEF IInv, TypeOK
    <2>2. c.token \in tokens /\ c.began <= now
        BY DEF IInv, TypeOK, Instants
    <2>. QED
        BY <1>1, <2>1, <2>2 DEF IInv, Checks
<1>4. Numbered' /\ Timely' /\ TokenInKeyLife' /\ RefusedOnlyFresh'
    BY <1>1 DEF IInv, Numbered, Timely, InUse, Last, TokenInKeyLife, Ttl, RefusedOnlyFresh
<1>. QED
    BY <1>2, <1>3, <1>4 DEF IInv

LEMMA ScannedStep ==
    ASSUME IInv, NEW r \in Requests, Scanned(r) PROVE IInv'
<1>. USE Numbers
<1>. DEFINE c == check[r]
            x == [token |-> c.token, began |-> c.began]
<1>1. PICK S \in Found(c.began) :
          /\ cache' = [cache EXCEPT ![c.at] = S]
          /\ refused' = IF Valid(c.token) /\ ~(c.token.kid \in S /\ Ttl(c.token.kid) >= now)
                        THEN refused \cup {x} ELSE refused
    BY DEF Scanned
<1>2. /\ c # Idle /\ check' = [check EXCEPT ![r] = Idle]
      /\ UNCHANGED <<now, made, born, public, since, key, timer, putting, orphaned,
                     tokens, faults>>
    BY DEF Scanned, signer
<1>3. /\ c \in Check /\ c.token \in tokens /\ c.token \in Token /\ c.began \in Instants
      /\ c.began <= now /\ now \in Nat /\ c.began \in Nat
    BY <1>2 DEF IInv, TypeOK, Checks, Check, Instants
<1>4. TypeOK'
    <2>1. cache' \in [Verifiers -> SUBSET Kids]
        BY <1>1 DEF IInv, TypeOK, Found
    <2>2. refused' \in SUBSET [token : Token, began : Instants]
        BY <1>1, <1>3 DEF IInv, TypeOK
    <2>3. check' \in [Requests -> Check \cup {Idle}]
        BY <1>2 DEF IInv, TypeOK
    <2>. QED
        BY <1>2, <2>1, <2>2, <2>3 DEF IInv, TypeOK
<1>5. Checks'
    BY <1>2 DEF IInv, TypeOK, Checks
<1>6. Numbered' /\ Timely' /\ TokenInKeyLife'
    BY <1>2 DEF IInv, Numbered, Timely, InUse, Last, TokenInKeyLife, Ttl
<1>7. RefusedOnlyFresh'
    <2>. DEFINE k == c.token.kid
    <2>1. ASSUME Valid(c.token), ~(k \in S /\ Ttl(k) >= now), k \notin orphaned
          PROVE  k \in public /\ c.began <= since[k] + Lag
        <3>1. k \in Kids /\ k \in public /\ c.token.exp \in Nat
            BY <1>3 DEF IInv, Numbered, Token
        <3>2. Ttl(k) \in Nat /\ since[k] \in Nat
            BY <3>1 DEF IInv, TypeOK, Ttl, Instants
        <3>3. now < c.token.exp /\ c.token.exp <= Ttl(k)
            BY <1>3, <2>1 DEF IInv, TokenInKeyLife, Valid
        <3>4. Ttl(k) >= now /\ Ttl(k) > c.began
            BY <1>3, <3>1, <3>2, <3>3
        <3>5. k \notin S
            BY <2>1, <3>4
        <3>6. ~(since[k] + Lag < c.began)
            BY <3>1, <3>4, <3>5 DEF Found
        <3>. QED
            BY <1>3, <3>1, <3>2, <3>6
    <2>. QED
        BY <1>1, <1>2, <2>1 DEF IInv, RefusedOnlyFresh
<1>. QED
    BY <1>4, <1>5, <1>6, <1>7 DEF IInv

LEMMA TickStep ==
    ASSUME IInv, Tick PROVE IInv'
<1>. USE Numbers
<1>1. /\ now < End /\ now' = now + 1 /\ now \in Nat
      /\ \A p \in Signers : /\ now < timer[p] + MaxLate
                            /\ putting[p] # NoKey => now < born[putting[p]] + MaxPut
      /\ UNCHANGED <<made, born, public, since, key, timer, putting, orphaned,
                     tokens, cache, check, refused, faults>>
    BY DEF Tick, signer, verifier, IInv, TypeOK, Instants
<1>2. TypeOK'
    BY <1>1 DEF IInv, TypeOK, Instants
<1>3. Checks'
    <2>1. \A q \in Requests : check[q] # Idle => check[q].began \in Nat
        BY DEF IInv, TypeOK, Check, Instants
    <2>2. \A k \in public : since[k] \in Nat
        BY DEF IInv, TypeOK, Instants
    <2>. QED
        BY <1>1, <2>1, <2>2 DEF IInv, Checks
<1>4. ASSUME NEW q \in Signers PROVE InUse(q)'
    <2>1. timer[q] \in Nat /\ (putting[q] # NoKey => born[putting[q]] \in Nat)
        BY DEF IInv, TypeOK, Instants, Kids, NoTimer
    <2>. QED
        BY <1>1, <2>1 DEF IInv, Timely, InUse, Last
<1>5. Numbered' /\ TokenInKeyLife' /\ RefusedOnlyFresh'
    BY <1>1 DEF IInv, Numbered, TokenInKeyLife, Ttl, RefusedOnlyFresh
<1>. QED
    BY <1>2, <1>3, <1>4, <1>5 DEF IInv, Timely

LEMMA NextIInv ==
    ASSUME IInv, [Next]_vars PROVE IInv'
<1>1. CASE UNCHANGED vars
    BY <1>1 DEF vars, signer, verifier, IInv, TypeOK, Numbered, Timely, InUse, Last, Checks,
                TokenInKeyLife, Ttl, RefusedOnlyFresh
<1>2. ASSUME NEW p \in Signers, Rekey(p) \/ PutDone(p) \/ PutFails(p) \/ Restart(p) \/ Sign(p)
      PROVE  IInv'
    BY <1>2, RekeyStep, PutDoneStep, PutFailsStep, RestartStep, SignStep
<1>3. ASSUME NEW r \in Requests, NEW v \in Verifiers, NEW t \in tokens, FindKey(r, v, t)
      PROVE  IInv'
    BY <1>3, FindKeyStep
<1>4. ASSUME NEW r \in Requests, Scanned(r) PROVE IInv'
    BY <1>4, ScannedStep
<1>5. CASE Tick
    BY <1>5, TickStep
<1>. QED
    BY <1>1, <1>2, <1>3, <1>4, <1>5 DEF Next

-----------------------------------------------------------------------------
\* The keys, timers, tokens and caches keep their types.
THEOREM TypeCorrect == Spec => []TypeOK
<1>1. Init => IInv
    BY InitIInv
<1>2. IInv /\ [Next]_vars => IInv'
    BY NextIInv
<1>3. IInv => TypeOK
    BY DEF IInv
<1>. QED
    BY <1>1, <1>2, <1>3, PTL DEF Spec

\* No token lives longer than the key that signed it, whatever the options, so
\* long as they keep the margin of MarginAssumption.
THEOREM TokensVerifiable == Spec => []TokenInKeyLife
<1>1. Init => IInv
    BY InitIInv
<1>2. IInv /\ [Next]_vars => IInv'
    BY NextIInv
<1>3. IInv => TokenInKeyLife
    BY DEF IInv
<1>. QED
    BY <1>1, <1>2, <1>3, PTL DEF Spec

\* A valid token is refused only by a scan that may have been too early to see
\* its key, however the requests of a verifier interleave.
THEOREM RefusalsExplained == Spec => []RefusedOnlyFresh
<1>1. Init => IInv
    BY InitIInv
<1>2. IInv /\ [Next]_vars => IInv'
    BY NextIInv
<1>3. IInv => RefusedOnlyFresh
    BY DEF IInv
<1>. QED
    BY <1>1, <1>2, <1>3, PTL DEF Spec

=============================================================================
