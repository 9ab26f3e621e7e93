---------------------------- MODULE AgentVerify ----------------------------
(***************************************************************************)
(* Verification of one registered agent by the API: GET /agent/verify with *)
(* its verdict cache, POST /agent/verify-auth without one, and what POST   *)
(* /agent/issue does to the stored credential and the cache.  A verdict is *)
(* put together from reads of the register and of three contracts, each an *)
(* await of its own, while chain and register move.                        *)
(***************************************************************************)
EXTENDS Integers, FiniteSets

CONSTANTS
  Handler,      \* requests in flight at one time
  TTL,          \* VERIFY_CACHE_TTL_MS
  MaxLatency,   \* assumption: what one verification takes at most
  MaxNonce,     \* bound: credentials 1..MaxNonce are issued
  MaxTime       \* bound: the last instant explored

ASSUME VerifyAssumption ==
  /\ TTL \in Nat \ {0}
  /\ MaxLatency \in Nat \ {0}
  /\ MaxNonce \in Nat
  /\ MaxTime \in Nat

\* What a contract may say of the agent: its operator is the root's verified
\* human, its kill switch is off, its bond is at least the minimum.
Fact == {"human", "active", "bond"}

VARIABLES
  now,
  holds,       \* the facts the contracts state at present
  lostAt,      \* history: when a fact last ceased to hold, 0 while it holds
  row,         \* the stored credential, or NoRow
  replacedAt,  \* history: when credential n was replaced, 0 = it was not
  unconfirmed, \* credentials stored by an issue handler that is still running
  confirmed,   \* history: the newest credential an issue answered 201 for
  cache,       \* verifyCache's entry for the agent
  handler,     \* the verification handlers
  unreadAt,    \* history: when a read of the vault last failed
  answer       \* the verdict the last step sent, or NoAnswer

chainVars == <<now, holds, lostAt>>
registerVars == <<row, replacedAt, unconfirmed, confirmed>>
vars == <<chainVars, registerVars, cache, handler, unreadAt, answer>>

Credential == [nonce : 1..MaxNonce, expiresAt : Nat]
NoRow == [nonce |-> 0, expiresAt |-> 0]

\* The part of a response body that the properties are about.
Verdict == [valid : BOOLEAN, bondChecked : BOOLEAN, cred : Credential]

Kind == {"default", "uncached"}   \* uncached: ?minStake given, or verify-auth
Origin == [kind : Kind, since : Nat, confirmed : 0..MaxNonce]
Answer == [verdict : Verdict, origin : Origin]
NoAnswer == [verdict |-> "none"]

Entry == [at : Nat, body : Verdict]
NoEntry == [at |-> 0]

Idle == [stage |-> "idle"]
Started == [stage : {"row"}, origin : Origin]
Verifying ==
  [stage : {"human", "active", "stake", "rejected"},
   origin : Origin,
   cred   : Credential,
   vault  : {"pending", "enough", "short", "unreadable"}]

TypeOK ==
  /\ now \in Nat \ {0}
  /\ holds \subseteq Fact
  /\ lostAt \in [Fact -> Nat]
  /\ row \in Credential \cup {NoRow}
  /\ replacedAt \in [1..MaxNonce -> Nat]
  /\ unconfirmed \subseteq 1..MaxNonce
  /\ confirmed \in 0..MaxNonce
  /\ cache \in Entry \cup {NoEntry}
  /\ handler \in [Handler -> Started \cup Verifying \cup {Idle}]
  /\ unreadAt \in Nat
  /\ answer \in Answer \cup {NoAnswer}

Init ==
  /\ now = 1
  /\ holds \in SUBSET Fact
  /\ lostAt = [f \in Fact |-> 0]
  /\ row = NoRow
  /\ replacedAt = [n \in 1..MaxNonce |-> 0]
  /\ unconfirmed = {}
  /\ confirmed = 0
  /\ cache = NoEntry
  /\ handler = [h \in Handler |-> Idle]
  /\ unreadAt = 0
  /\ answer = NoAnswer

-----------------------------------------------------------------------------

At(h, stages) == handler[h].stage \in stages

\* No verification outlasts MaxLatency: the transports time their calls out.
Tick ==
  /\ now < MaxTime
  /\ \A h \in Handler : ~At(h, {"idle"}) => now - handler[h].origin.since < MaxLatency
  /\ now' = now + 1
  /\ answer' = NoAnswer
  /\ UNCHANGED <<holds, lostAt, registerVars, cache, handler, unreadAt>>

\* A transaction takes a fact away, or brings it back.
ChainMoves(f) ==
  /\ IF f \in holds
     THEN holds' = holds \ {f} /\ lostAt' = [lostAt EXCEPT ![f] = now]
     ELSE holds' = holds \cup {f} /\ lostAt' = [lostAt EXCEPT ![f] = 0]
  /\ answer' = NoAnswer
  /\ UNCHANGED <<now, registerVars, cache, handler, unreadAt>>

\* issueAgentCredential commits a newer credential.  AgentRegistry has the
\* checks before it; here it is enough that they may pass.
StoreCredential(expiresAt) ==
  LET n == row.nonce + 1 IN
  /\ n <= MaxNonce
  /\ row' = [nonce |-> n, expiresAt |-> expiresAt]
  /\ replacedAt' = [m \in 1..MaxNonce |-> IF m = row.nonce THEN now ELSE replacedAt[m]]
  /\ unconfirmed' = unconfirmed \cup {n}
  /\ answer' = NoAnswer
  /\ UNCHANGED <<chainVars, confirmed, cache, handler, unreadAt>>

\* After writeAudit the handler drops the cached verdict and answers 201.
ConfirmIssue(n) ==
  /\ n \in unconfirmed
  /\ unconfirmed' = unconfirmed \ {n}
  /\ cache' = NoEntry
  /\ confirmed' = IF n > confirmed THEN n ELSE confirmed
  /\ answer' = NoAnswer
  /\ UNCHANGED <<chainVars, row, replacedAt, handler, unreadAt>>

\* writeAudit throws: a 500, the credential stays and so does the cache.
AuditFails(n) ==
  /\ n \in unconfirmed
  /\ unconfirmed' = unconfirmed \ {n}
  /\ answer' = NoAnswer
  /\ UNCHANGED <<chainVars, row, replacedAt, confirmed, cache, handler, unreadAt>>

-----------------------------------------------------------------------------

Send(verdict, origin) == answer' = [verdict |-> verdict, origin |-> origin]

Fresh(entry) == entry # NoEntry /\ now - entry.at < TTL

\* Mutant: a hit makes the entry young again.
AnswerFromCacheSliding ==
  /\ Fresh(cache)
  /\ Send(cache.body, [kind |-> "default", since |-> now, confirmed |-> confirmed])
  /\ cache' = [cache EXCEPT !.at = now]
  /\ UNCHANGED <<chainVars, registerVars, handler, unreadAt>>

\* Mutant: every kind of request is served from the cache.
AnswerAllFromCache ==
  /\ Fresh(cache)
  /\ \E kind \in Kind :
       Send(cache.body, [kind |-> kind, since |-> now, confirmed |-> confirmed])
  /\ UNCHANGED <<chainVars, registerVars, cache, handler, unreadAt>>

\* A default request is answered from the cache when that is fresh.
AnswerFromCache ==
  /\ Fresh(cache)
  /\ Send(cache.body, [kind |-> "default", since |-> now, confirmed |-> confirmed])
  /\ UNCHANGED <<chainVars, registerVars, cache, handler, unreadAt>>

Start(h, kind) ==
  /\ At(h, {"idle"})
  /\ kind = "default" => ~Fresh(cache)
  /\ handler' = [handler EXCEPT ![h] =
       [stage |-> "row",
        origin |-> [kind |-> kind, since |-> now, confirmed |-> confirmed]]]
  /\ answer' = NoAnswer
  /\ UNCHANGED <<chainVars, registerVars, cache, unreadAt>>

\* Mutant: a missing row is verified like any other.
ReadRowOrNone(h) ==
  /\ At(h, {"row"})
  /\ handler' = [handler EXCEPT ![h] =
       [stage |-> "human", origin |-> handler[h].origin, cred |-> row, vault |-> "pending"]]
  /\ answer' = NoAnswer
  /\ UNCHANGED <<chainVars, registerVars, cache, unreadAt>>

\* getAgentCredential, then verifyAgentId up to its first chain read: an
\* expired credential is rejected here.  The read of the vault is under way.
ReadRow(h) ==
  /\ At(h, {"row"})
  /\ row # NoRow
  /\ handler' = [handler EXCEPT ![h] =
       [stage  |-> IF now >= row.expiresAt THEN "rejected" ELSE "human",
        origin |-> handler[h].origin,
        cred   |-> row,
        vault  |-> "pending"]]
  /\ answer' = NoAnswer
  /\ UNCHANGED <<chainVars, registerVars, cache, unreadAt>>

\* getAgentVaultStatus settles, at any time; its failure is caught.
ReadVault(h, outcome) ==
  /\ At(h, {"human", "active", "stake", "rejected"})
  /\ handler[h].vault = "pending"
  /\ outcome \in {IF "bond" \in holds THEN "enough" ELSE "short", "unreadable"}
  /\ handler' = [handler EXCEPT ![h].vault = outcome]
  /\ unreadAt' = IF outcome = "unreadable" THEN now ELSE unreadAt
  /\ answer' = NoAnswer
  /\ UNCHANGED <<chainVars, registerVars, cache>>

\* humanRootLookup, then revocationLookup: the first to say no decides.
Look(h, from, fact, next) ==
  /\ At(h, {from})
  /\ handler' = [handler EXCEPT ![h].stage = IF fact \in holds THEN next ELSE "rejected"]
  /\ answer' = NoAnswer
  /\ UNCHANGED <<chainVars, registerVars, cache, unreadAt>>

ReadHumanRoot(h) == Look(h, "human", "human", "active")
ReadRevocation(h) == Look(h, "active", "active", "stake")

\* stakeLookup, when verifyAgentId gets that far, and the body.
VerdictOf(h) ==
  LET reached == At(h, {"stake"}) IN
  [valid       |-> reached /\ handler[h].vault # "short",
   bondChecked |-> reached => handler[h].vault # "unreadable",
   cred        |-> handler[h].cred]

\* Mutant: verdicts without the bond are cached as well.
FinishCachesAll(h) ==
  /\ At(h, {"stake", "rejected"})
  /\ handler[h].vault # "pending"
  /\ Send(VerdictOf(h), handler[h].origin)
  /\ IF handler[h].origin.kind = "default"
     THEN cache' = [at |-> now, body |-> VerdictOf(h)]
     ELSE UNCHANGED cache
  /\ handler' = [handler EXCEPT ![h] = Idle]
  /\ UNCHANGED <<chainVars, registerVars, unreadAt>>

\* A default verdict is cached on the way out, unless the bond went unread.
Finish(h) ==
  /\ At(h, {"stake", "rejected"})
  /\ handler[h].vault # "pending"
  /\ Send(VerdictOf(h), handler[h].origin)
  /\ IF handler[h].origin.kind = "default" /\ VerdictOf(h).bondChecked
     THEN cache' = [at |-> now, body |-> VerdictOf(h)]
     ELSE UNCHANGED cache
  /\ handler' = [handler EXCEPT ![h] = Idle]
  /\ UNCHANGED <<chainVars, registerVars, unreadAt>>

\* No such agent, or a lookup threw: not_found, 500 or 502.
Fail(h) ==
  /\ At(h, {"row", "human", "active"})
  /\ handler' = [handler EXCEPT ![h] = Idle]
  /\ answer' = NoAnswer
  /\ UNCHANGED <<chainVars, registerVars, cache, unreadAt>>

\* The process restarts: handlers and cache are gone, the register is not.
Restart ==
  /\ handler' = [h \in Handler |-> Idle]
  /\ unconfirmed' = {}
  /\ cache' = NoEntry
  /\ answer' = NoAnswer
  /\ UNCHANGED <<chainVars, row, replacedAt, confirmed, unreadAt>>

Next ==
  \/ Tick
  \/ \E f \in Fact : ChainMoves(f)
  \/ \E expiresAt \in now + 1 .. MaxTime + 1 : StoreCredential(expiresAt)
  \/ \E n \in unconfirmed : ConfirmIssue(n) \/ AuditFails(n)
  \/ AnswerFromCache
  \/ \E h \in Handler :
       \/ \E kind \in Kind : Start(h, kind)
       \/ ReadRow(h)
       \/ \E outcome \in {"enough", "short", "unreadable"} : ReadVault(h, outcome)
       \/ ReadHumanRoot(h)
       \/ ReadRevocation(h)
       \/ Finish(h)
       \/ Fail(h)
  \/ Restart

Spec == Init /\ [][Next]_vars

-----------------------------------------------------------------------------

\* Fact f was so at some time from t on.
HeldSince(f, t) == f \in holds \/ (lostAt[f] # 0 /\ lostAt[f] >= t)

\* What a valid verdict vouches for, for some time from t on: the facts it
\* claims to have checked, an unexpired credential, and that it was the stored one.
VouchedSince(verdict, t) ==
  /\ \A f \in Fact \ (IF verdict.bondChecked THEN {} ELSE {"bond"}) : HeldSince(f, t)
  /\ t < verdict.cred.expiresAt
  /\ \/ replacedAt[verdict.cred.nonce] = 0
     \/ replacedAt[verdict.cred.nonce] >= t

Says(valid) == answer # NoAnswer /\ answer.verdict.valid = valid

\* "a 15s TTL is well within tolerance" (apps/api/src/index.ts:110-112): a valid
\* answer is never older than TTL plus one verification, in any of its parts,
\* although each part is read at a time of its own and entries are refilled.
BoundedStaleness ==
  Says(TRUE) => VouchedSince(answer.verdict, now + 1 - TTL - MaxLatency)

\* A request the cache does not serve sees every fact as it was during the
\* request, and no credential that was replaced before the request came in.
UncachedIsLive ==
  Says(TRUE) /\ answer.origin.kind = "uncached" =>
    VouchedSince(answer.verdict, answer.origin.since)

\* A valid answer given without the bond is never older than one verification:
\* it does not outlast the failure of the vault's node that caused it.
UncheckedIsTransient ==
  Says(TRUE) /\ ~answer.verdict.bondChecked =>
    unreadAt # 0 /\ now - unreadAt <= MaxLatency

\* "A successful (re-)issue changes the stored verdict; drop any cached entry"
\* (apps/api/src/index.ts:419): once an issue has answered 201, a later request
\* is answered about that credential or a newer one.
ReissueIsVisible ==
  answer # NoAnswer => answer.verdict.cred.nonce >= answer.origin.confirmed

=============================================================================
