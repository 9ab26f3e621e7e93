------------------------- MODULE AgentVerify_proofs -------------------------
(***************************************************************************)
(* How old a verdict can be, for any number of concurrent verifications,   *)
(* facts lost and regained, reissues and cache refills.  The argument: what *)
(* was so at some time from t on stays so, hence what a handler has seen   *)
(* is good since the handler's start, a cache entry since one latency      *)
(* before it was made, and an answer inherits one or the other.            *)
(***************************************************************************)
EXTENDS AgentVerify, TLAPS

\* What each stage of a verification has established since it began.
HandlerSound(h) ==
  ~At(h, {"idle"}) =>
    /\ handler[h].origin.since <= now
    /\ now - handler[h].origin.since <= MaxLatency
    /\ ~At(h, {"row"}) =>
         /\ \/ replacedAt[handler[h].cred.nonce] = 0
            \/ replacedAt[handler[h].cred.nonce] >= handler[h].origin.since
         /\ ~At(h, {"rejected"}) => handler[h].origin.since < handler[h].cred.expiresAt
         /\ At(h, {"active", "stake"}) => HeldSince("human", handler[h].origin.since)
         /\ At(h, {"stake"}) => HeldSince("active", handler[h].origin.since)
         /\ handler[h].vault = "enough" => HeldSince("bond", handler[h].origin.since)
         /\ handler[h].vault = "unreadable" =>
              unreadAt # 0 /\ unreadAt >= handler[h].origin.since

HandlersSound == \A h \in Handler : HandlerSound(h)

\* What a cached verdict stands for.
CacheSound ==
  cache # NoEntry =>
    /\ cache.at <= now
    /\ cache.body.bondChecked
    /\ cache.body.valid => VouchedSince(cache.body, cache.at - MaxLatency)

\* Neither the stored credential nor a later one was replaced.
NewestStands == \A m \in 1..MaxNonce : m >= row.nonce => replacedAt[m] = 0

Grounded == TypeOK /\ HandlersSound /\ CacheSound /\ NewestStands

AnswerSound == BoundedStaleness /\ UncachedIsLive /\ UncheckedIsTransient

IInv == Grounded /\ AnswerSound

-----------------------------------------------------------------------------

\* A fact that was so since t was so since any earlier time, too.
LEMMA HeldEarlier ==
  ASSUME TypeOK, NEW f \in Fact, NEW t \in Int, NEW u \in Int, u <= t, HeldSince(f, t)
  PROVE  HeldSince(f, u)
BY DEF HeldSince, TypeOK

\* The same for all that a verdict vouches for.
LEMMA VouchedEarlier ==
  ASSUME TypeOK, NEW v \in Verdict, NEW t \in Int, NEW u \in Int, u <= t, VouchedSince(v, t)
  PROVE  VouchedSince(v, u)
<1>1. v.cred.nonce \in 1..MaxNonce /\ v.cred.expiresAt \in Nat
  BY DEF Verdict, Credential
<1>2. replacedAt[v.cred.nonce] \in Nat
  BY <1>1 DEF TypeOK
<1>3. u < v.cred.expiresAt /\ t < v.cred.expiresAt
  BY <1>1 DEF VouchedSince
<1> QED
  BY <1>1, <1>2, <1>3, HeldEarlier DEF VouchedSince

\* Without an answer, nothing is claimed.
LEMMA Silence ==
  /\ answer = NoAnswer => AnswerSound
  /\ answer' = NoAnswer => AnswerSound'
BY DEF AnswerSound, BoundedStaleness, UncachedIsLive, UncheckedIsTransient, Says

\* What a handler that is not idle carries.
LEMMA HandlerTypes ==
  ASSUME TypeOK, NEW h \in Handler, ~At(h, {"idle"})
  PROVE  /\ handler[h].origin \in Origin
         /\ handler[h].origin.since \in Nat
         /\ ~At(h, {"row"}) =>
              /\ handler[h] \in Verifying
              /\ handler[h].cred \in Credential
              /\ handler[h].cred.nonce \in 1..MaxNonce
              /\ handler[h].cred.expiresAt \in Nat
<1>1. handler[h] \in Started \cup Verifying
  BY DEF TypeOK, At, Idle
<1> QED
  BY <1>1 DEF At, Started, Verifying, Origin, Credential

\* A verdict that vouches since t <= now still does after the chain moved or a
\* newer credential was stored, both of which leave their mark at now.
LEMMA VouchedPersists ==
  ASSUME TypeOK, NEW v \in Verdict, NEW t \in Int, t <= now, VouchedSince(v, t),
         \A f \in Fact : HeldSince(f, t) => HeldSince(f, t)',
         \A m \in 1..MaxNonce : replacedAt'[m] \in {replacedAt[m], now}
  PROVE  VouchedSince(v, t)'
<1>1. v.cred.nonce \in 1..MaxNonce /\ v.cred.expiresAt \in Nat
  BY DEF Verdict, Credential
<1> QED
  BY <1>1 DEF VouchedSince, TypeOK

\* The same for a handler that the step leaves where it is.
LEMMA HandlerPersists ==
  ASSUME TypeOK, NEW h \in Handler, HandlerSound(h), handler'[h] = handler[h], now' = now,
         unreadAt' \in {unreadAt, now},
         \A f \in Fact, t \in Int : t <= now /\ HeldSince(f, t) => HeldSince(f, t)',
         \A m \in 1..MaxNonce : replacedAt'[m] \in {replacedAt[m], now}
  PROVE  HandlerSound(h)'
<1> SUFFICES ASSUME ~At(h, {"idle"}) PROVE HandlerSound(h)'
  BY DEF HandlerSound, At
<1> DEFINE since == handler[h].origin.since
<1>1. /\ since \in Nat /\ since <= now /\ now - since <= MaxLatency /\ now # 0
      /\ ~At(h, {"row"}) => handler[h].cred.nonce \in 1..MaxNonce
  BY HandlerTypes DEF HandlerSound, TypeOK
<1>2. \A f \in Fact : HeldSince(f, since) => HeldSince(f, since)'
  BY <1>1 DEF HeldSince
<1> QED
  BY <1>1 DEF HandlerSound, At, TypeOK, Fact

\* Nothing that a fact was ever is undone by a transaction.
LEMMA FactsPersist ==
  ASSUME TypeOK,
         \/ UNCHANGED <<holds, lostAt>>
         \/ \E f \in Fact : ChainMoves(f)
  PROVE  \A f \in Fact, t \in Int : t <= now /\ HeldSince(f, t) => HeldSince(f, t)'
<1>1. CASE UNCHANGED <<holds, lostAt>>
  BY <1>1 DEF HeldSince
<1>2. ASSUME NEW f \in Fact, ChainMoves(f)
      PROVE  \A g \in Fact, t \in Int : t <= now /\ HeldSince(g, t) => HeldSince(g, t)'
  BY <1>2 DEF ChainMoves, HeldSince, TypeOK
<1> QED
  BY <1>1, <1>2

\* A step at one instant: it is enough to look at the handlers, the cache and
\* the register it changes.
LEMMA StepAtOneInstant ==
  ASSUME Grounded, TypeOK', now' = now,
         \/ UNCHANGED <<holds, lostAt>>
         \/ \E f \in Fact : ChainMoves(f),
         \A m \in 1..MaxNonce : replacedAt'[m] \in {replacedAt[m], now},
         unreadAt' \in {unreadAt, now},
         \A h \in Handler : handler'[h] = handler[h] \/ HandlerSound(h)',
         cache' = cache \/ CacheSound',
         NewestStands'
  PROVE  Grounded'
<1> USE DEF Grounded
<1>1. \A f \in Fact, t \in Int : t <= now /\ HeldSince(f, t) => HeldSince(f, t)'
  BY FactsPersist
<1>2. HandlersSound'
  BY <1>1, HandlerPersists DEF HandlersSound
<1>3. ASSUME cache' = cache PROVE CacheSound'
  <2> SUFFICES ASSUME cache # NoEntry, cache.body.valid
               PROVE  VouchedSince(cache.body, cache.at - MaxLatency)'
    BY <1>3 DEF CacheSound
  <2>1. cache \in Entry
    BY DEF TypeOK
  <2>2. /\ cache.body \in Verdict /\ cache.at \in Nat /\ cache.at <= now
        /\ VouchedSince(cache.body, cache.at - MaxLatency)
    BY <2>1 DEF Entry, CacheSound
  <2>3. cache.at - MaxLatency \in Int /\ cache.at - MaxLatency <= now
    BY <2>2, VerifyAssumption DEF TypeOK
  <2>4. VouchedSince(cache.body, cache.at - MaxLatency)' <=>
          (\E v \in {cache.body}, t \in {cache.at - MaxLatency} : VouchedSince(v, t)')
    BY <1>3
  <2> QED
    BY <1>1, <2>2, <2>3, <2>4, VouchedPersists
<1> QED
  BY <1>2, <1>3

-----------------------------------------------------------------------------

\* The service starts with nothing in flight and an empty cache.
LEMMA Initially == Init => IInv
<1> SUFFICES ASSUME Init PROVE IInv
  OBVIOUS
<1>1. TypeOK
  <2>1. now \in Nat \ {0} /\ row = NoRow /\ cache = NoEntry /\ answer = NoAnswer
    BY DEF Init
  <2>2. handler \in [Handler -> Started \cup Verifying \cup {Idle}]
    BY DEF Init
  <2> QED
    BY <2>1, <2>2, VerifyAssumption DEF Init, TypeOK
<1>2. HandlersSound /\ CacheSound /\ NewestStands
  BY DEF Init, HandlersSound, HandlerSound, At, Idle, CacheSound, NewestStands
<1> QED
  BY <1>1, <1>2, Silence DEF IInv, Grounded, Init

\* Time passes only while no verification is too slow for it.
LEMMA TickStep ==
  ASSUME Grounded, Tick
  PROVE  Grounded'
<1> USE DEF Grounded
<1>1. /\ now \in Nat /\ now # 0 /\ now' = now + 1 /\ answer' = NoAnswer
      /\ UNCHANGED <<holds, lostAt, row, replacedAt, unconfirmed, confirmed, cache, handler,
                     unreadAt>>
      /\ \A h \in Handler : ~At(h, {"idle"}) => now - handler[h].origin.since < MaxLatency
  BY DEF Tick, TypeOK, registerVars
<1>2. TypeOK'
  BY <1>1 DEF TypeOK
<1>3. HandlersSound'
  <2> SUFFICES ASSUME NEW h \in Handler, ~At(h, {"idle"}) PROVE HandlerSound(h)'
    BY <1>1 DEF HandlersSound, HandlerSound, At
  <2>1. handler[h].origin.since \in Nat
    BY HandlerTypes
  <2> QED
    BY <1>1, <2>1, VerifyAssumption DEF HandlersSound, HandlerSound, HeldSince, At
<1>4. CacheSound'
  <2> SUFFICES ASSUME cache # NoEntry PROVE CacheSound'
    BY <1>1 DEF CacheSound
  <2>1. cache \in Entry
    BY DEF TypeOK
  <2> QED
    BY <1>1, <2>1 DEF Entry, CacheSound, VouchedSince, HeldSince
<1>5. NewestStands'
  BY <1>1 DEF NewestStands
<1> QED
  BY <1>2, <1>3, <1>4, <1>5

\* A fact is lost or regained.
LEMMA ChainStep ==
  ASSUME Grounded, NEW f \in Fact, ChainMoves(f)
  PROVE  Grounded'
<1>1. /\ now' = now
      /\ UNCHANGED <<row, replacedAt, unconfirmed, confirmed, cache, handler, unreadAt>>
  BY DEF ChainMoves, registerVars
<1>2. TypeOK'
  BY <1>1 DEF ChainMoves, Grounded, TypeOK
<1>3. NewestStands'
  BY <1>1 DEF Grounded, NewestStands
<1>4. \A m \in 1..MaxNonce : replacedAt'[m] \in {replacedAt[m], now}
  BY <1>1
<1> QED
  BY <1>1, <1>2, <1>3, <1>4, StepAtOneInstant

\* The credential in force is replaced now, so its verdicts were good until now.
LEMMA StoreStep ==
  ASSUME Grounded, NEW e \in now + 1 .. MaxTime + 1, StoreCredential(e)
  PROVE  Grounded'
<1> USE DEF Grounded
<1>1. /\ row.nonce \in Nat /\ row.nonce + 1 \in 1..MaxNonce /\ e \in Nat /\ now \in Nat
  BY VerifyAssumption DEF StoreCredential, TypeOK, NoRow, Credential
<1>2. /\ row' = [nonce |-> row.nonce + 1, expiresAt |-> e]
      /\ replacedAt' = [m \in 1..MaxNonce |-> IF m = row.nonce THEN now ELSE replacedAt[m]]
      /\ unconfirmed' = unconfirmed \cup {row.nonce + 1}
      /\ answer' = NoAnswer
      /\ UNCHANGED <<now, holds, lostAt, confirmed, cache, handler, unreadAt>>
  BY DEF StoreCredential, chainVars
<1>3. row' \in Credential /\ replacedAt' \in [1..MaxNonce -> Nat]
  BY <1>1, <1>2 DEF Credential, TypeOK
<1>4. TypeOK'
  BY <1>1, <1>2, <1>3 DEF TypeOK
<1>5. NewestStands'
  BY <1>1, <1>2 DEF NewestStands
<1>6. \A m \in 1..MaxNonce : replacedAt'[m] \in {replacedAt[m], now}
  BY <1>2
<1> QED
  BY <1>2, <1>4, <1>5, <1>6, StepAtOneInstant

\* The end of an issue, well or badly, only empties the cache or leaves it.
LEMMA IssueEndsStep ==
  ASSUME Grounded, NEW n \in unconfirmed, ConfirmIssue(n) \/ AuditFails(n)
  PROVE  Grounded'
<1>1. /\ UNCHANGED <<now, holds, lostAt, row, replacedAt, handler, unreadAt>>
      /\ cache' \in {cache, NoEntry} /\ confirmed' \in {confirmed, n}
      /\ unconfirmed' = unconfirmed \ {n} /\ answer' = NoAnswer
  BY DEF ConfirmIssue, AuditFails, chainVars
<1>2. TypeOK'
  BY <1>1 DEF Grounded, TypeOK
<1>3. cache' = cache \/ CacheSound'
  BY <1>1 DEF CacheSound
<1>4. NewestStands'
  BY <1>1 DEF Grounded, NewestStands
<1> QED
  BY <1>1, <1>2, <1>3, <1>4, StepAtOneInstant

-----------------------------------------------------------------------------

\* A step of one handler h: chain and register stand still, and it is enough
\* that what h carries on with is sound.
LEMMA HandlerStep ==
  ASSUME Grounded, NEW h \in Handler, NEW next \in Started \cup Verifying \cup {Idle},
         handler' = [handler EXCEPT ![h] = next],
         UNCHANGED <<chainVars, registerVars>>,
         unreadAt' \in {unreadAt, now},
         cache' = cache \/ (cache' \in Entry /\ CacheSound'),
         answer' \in Answer \cup {NoAnswer},
         handler'[h] = next => HandlerSound(h)'
  PROVE  Grounded'
<1>1. UNCHANGED <<now, holds, lostAt, row, replacedAt, unconfirmed, confirmed>>
  BY DEF chainVars, registerVars
<1>2. TypeOK'
  BY <1>1 DEF Grounded, TypeOK
<1>3. \A q \in Handler : handler'[q] = handler[q] \/ HandlerSound(q)'
  BY DEF Grounded, TypeOK
<1>4. NewestStands'
  BY <1>1 DEF Grounded, NewestStands
<1>5. \A m \in 1..MaxNonce : replacedAt'[m] \in {replacedAt[m], now}
  BY <1>1
<1> QED
  BY <1>1, <1>2, <1>3, <1>4, <1>5, StepAtOneInstant

\* A request that arrives notes the time and the newest confirmed credential.
LEMMA StartStep ==
  ASSUME Grounded, NEW h \in Handler, NEW kind \in Kind, Start(h, kind)
  PROVE  Grounded'
<1> DEFINE next == [stage |-> "row",
                    origin |-> [kind |-> kind, since |-> now, confirmed |-> confirmed]]
<1>1. now \in Nat /\ next \in Started
  BY DEF Grounded, TypeOK, Started, Origin
<1>2. /\ handler' = [handler EXCEPT ![h] = next]
      /\ UNCHANGED <<chainVars, registerVars, cache, unreadAt>> /\ answer' = NoAnswer
  BY DEF Start
<1>3. handler'[h] = next => HandlerSound(h)'
  BY <1>1, <1>2, VerifyAssumption DEF HandlerSound, At, chainVars
<1> QED
  BY <1>1, <1>2, <1>3, HandlerStep

\* The stored credential is in force when it is read, and not expired if the
\* handler goes on.
LEMMA ReadRowStep ==
  ASSUME Grounded, NEW h \in Handler, ReadRow(h)
  PROVE  Grounded'
<1> DEFINE next == [stage  |-> IF now >= row.expiresAt THEN "rejected" ELSE "human",
                    origin |-> handler[h].origin,
                    cred   |-> row,
                    vault  |-> "pending"]
<1>1. ~At(h, {"idle"}) /\ row \in Credential /\ now \in Nat
  BY DEF ReadRow, At, Grounded, TypeOK
<1>2. /\ handler[h].origin \in Origin /\ handler[h].origin.since \in Nat
      /\ handler[h].origin.since <= now /\ now - handler[h].origin.since <= MaxLatency
      /\ row.nonce \in 1..MaxNonce /\ row.expiresAt \in Nat
      /\ replacedAt[row.nonce] = 0
  BY <1>1, HandlerTypes
  DEF Grounded, HandlersSound, HandlerSound, NewestStands, Credential
<1>3. /\ next \in Verifying
      /\ next.stage \in {"rejected", "human"}
      /\ next.stage = "human" => now < row.expiresAt
      /\ next.origin = handler[h].origin /\ next.cred = row /\ next.vault = "pending"
  BY <1>1, <1>2 DEF Verifying
<1>4. /\ handler' = [handler EXCEPT ![h] = next]
      /\ UNCHANGED <<chainVars, registerVars, cache, unreadAt>> /\ answer' = NoAnswer
  BY DEF ReadRow
<1> HIDE DEF next
<1>5. handler'[h] = next => HandlerSound(h)'
  BY <1>1, <1>2, <1>3, <1>4 DEF HandlerSound, At, chainVars, registerVars
<1> QED
  BY <1>3, <1>4, <1>5, HandlerStep

\* What the vault says is so when it is read.
LEMMA ReadVaultStep ==
  ASSUME Grounded, NEW h \in Handler, NEW outcome, ReadVault(h, outcome)
  PROVE  Grounded'
<1> DEFINE next == [handler[h] EXCEPT !.vault = outcome]
<1>1. ~At(h, {"idle"}) /\ ~At(h, {"row"})
  BY DEF ReadVault, At
<1>2. /\ handler[h] \in Verifying /\ HandlerSound(h)
      /\ now \in Nat /\ now # 0 /\ handler[h].origin.since \in Nat
  BY <1>1, HandlerTypes DEF Grounded, HandlersSound, TypeOK
<1>3. /\ outcome \in {IF "bond" \in holds THEN "enough" ELSE "short", "unreadable"}
      /\ handler' = [handler EXCEPT ![h] = next]
      /\ unreadAt' = IF outcome = "unreadable" THEN now ELSE unreadAt
      /\ UNCHANGED <<chainVars, registerVars, cache>> /\ answer' = NoAnswer
  BY DEF ReadVault
<1>4. /\ next \in Verifying
      /\ next.stage = handler[h].stage /\ next.origin = handler[h].origin
      /\ next.cred = handler[h].cred /\ next.vault = outcome
  BY <1>2, <1>3 DEF Verifying
<1> HIDE DEF next
<1>5. handler'[h] = next => HandlerSound(h)'
  BY <1>1, <1>2, <1>3, <1>4 DEF HandlerSound, At, HeldSince, chainVars, registerVars
<1> QED
  BY <1>3, <1>4, <1>5, HandlerStep

\* A lookup that says yes is of now.
LEMMA LookStep ==
  ASSUME Grounded, NEW h \in Handler, ReadHumanRoot(h) \/ ReadRevocation(h)
  PROVE  Grounded'
<1>1. PICK stage \in {"active", "stake", "rejected"} :
        /\ handler' = [handler EXCEPT ![h] = [handler[h] EXCEPT !.stage = stage]]
        /\ \/ At(h, {"human"}) /\ stage = "active" /\ "human" \in holds
           \/ At(h, {"active"}) /\ stage = "stake" /\ "active" \in holds
           \/ At(h, {"human", "active"}) /\ stage = "rejected"
        /\ UNCHANGED <<chainVars, registerVars, cache, unreadAt>> /\ answer' = NoAnswer
  BY DEF ReadHumanRoot, ReadRevocation, Look, At
<1> DEFINE next == [handler[h] EXCEPT !.stage = stage]
<1>2. ~At(h, {"idle"}) /\ ~At(h, {"row"}) /\ ~At(h, {"rejected"})
  BY <1>1 DEF At
<1>3. /\ handler[h] \in Verifying /\ HandlerSound(h)
  BY <1>2, HandlerTypes DEF Grounded, HandlersSound
<1>4. /\ next \in Verifying
      /\ next.stage = stage /\ next.origin = handler[h].origin
      /\ next.cred = handler[h].cred /\ next.vault = handler[h].vault
  BY <1>1, <1>3 DEF Verifying
<1>5. /\ handler' = [handler EXCEPT ![h] = next]
      /\ UNCHANGED <<chainVars, registerVars, cache, unreadAt>> /\ answer' = NoAnswer
  BY <1>1
<1> HIDE DEF next
<1>6. handler'[h] = next => HandlerSound(h)'
  BY <1>1, <1>2, <1>3, <1>4 DEF HandlerSound, At, HeldSince, chainVars, registerVars
<1> QED
  BY <1>4, <1>5, <1>6, HandlerStep

\* An error ends a verification without a word.
LEMMA FailStep ==
  ASSUME Grounded, NEW h \in Handler, Fail(h)
  PROVE  Grounded'
<1>1. /\ handler' = [handler EXCEPT ![h] = Idle]
      /\ UNCHANGED <<chainVars, registerVars, cache, unreadAt>> /\ answer' = NoAnswer
  BY DEF Fail
<1>2. handler'[h] = Idle => HandlerSound(h)'
  BY DEF HandlerSound, At, Idle
<1> QED
  BY <1>1, <1>2, HandlerStep

\* A restart forgets handlers and cache, and with them all they claimed.
LEMMA RestartStep ==
  ASSUME Grounded, Restart
  PROVE  Grounded'
<1>1. /\ handler' = [h \in Handler |-> Idle]
      /\ unconfirmed' = {} /\ cache' = NoEntry /\ answer' = NoAnswer
      /\ UNCHANGED <<now, holds, lostAt, row, replacedAt, confirmed, unreadAt>>
  BY DEF Restart, chainVars
<1>2. handler' \in [Handler -> Started \cup Verifying \cup {Idle}]
  BY <1>1
<1>3. TypeOK'
  BY <1>1, <1>2 DEF Grounded, TypeOK
<1>4. \A h \in Handler : HandlerSound(h)'
  BY <1>1 DEF HandlerSound, At, Idle
<1>5. CacheSound' /\ NewestStands'
  BY <1>1 DEF CacheSound, NewestStands, Grounded
<1>6. \A m \in 1..MaxNonce : replacedAt'[m] \in {replacedAt[m], now}
  BY <1>1
<1> QED
  BY <1>1, <1>3, <1>4, <1>5, <1>6, StepAtOneInstant

-----------------------------------------------------------------------------

\* An answer sent while chain and register stand still claims what its verdict
\* vouches for now.
LEMMA AnswerSent ==
  ASSUME TypeOK, NEW v \in Verdict, NEW o \in Origin, Send(v, o),
         UNCHANGED <<chainVars, registerVars, unreadAt>>,
         v.valid => VouchedSince(v, now + 1 - TTL - MaxLatency),
         v.valid /\ o.kind = "uncached" => VouchedSince(v, o.since),
         v.valid /\ ~v.bondChecked => unreadAt # 0 /\ now - unreadAt <= MaxLatency
  PROVE  AnswerSound'
<1>1. answer'.verdict = v /\ answer'.origin = o
  BY DEF Send
<1>2. UNCHANGED <<now, holds, lostAt, replacedAt, unreadAt>>
  BY DEF chainVars, registerVars
<1>3. v.valid => VouchedSince(v, now + 1 - TTL - MaxLatency)'
  BY <1>2 DEF VouchedSince, HeldSince
<1>4. v.valid /\ o.kind = "uncached" => VouchedSince(v, o.since)'
  BY <1>2 DEF VouchedSince, HeldSince
<1>5. BoundedStaleness'
  BY <1>1, <1>3 DEF BoundedStaleness, Says
<1>6. UncachedIsLive'
  BY <1>1, <1>4 DEF UncachedIsLive, Says
<1>7. UncheckedIsTransient'
  BY <1>1, <1>2 DEF UncheckedIsTransient, Says
<1> QED
  BY <1>5, <1>6, <1>7 DEF AnswerSound

\* A verdict put together by a handler vouches since the handler's start.
LEMMA VerdictIsOfTheRequest ==
  ASSUME Grounded, NEW h \in Handler, At(h, {"stake", "rejected"}), handler[h].vault # "pending"
  PROVE  /\ VerdictOf(h) \in Verdict
         /\ VerdictOf(h).valid => VouchedSince(VerdictOf(h), handler[h].origin.since)
         /\ ~VerdictOf(h).bondChecked =>
              unreadAt # 0 /\ unreadAt >= handler[h].origin.since
<1>1. ~At(h, {"idle"}) /\ ~At(h, {"row"})
  BY DEF At
<1>2. handler[h] \in Verifying /\ HandlerSound(h) /\ handler[h].cred \in Credential
  BY <1>1, HandlerTypes DEF Grounded, HandlersSound
<1>3. handler[h].vault \in {"enough", "short", "unreadable"}
  BY <1>2 DEF Verifying
<1>4. /\ VerdictOf(h).valid <=> At(h, {"stake"}) /\ handler[h].vault # "short"
      /\ VerdictOf(h).bondChecked <=> (At(h, {"stake"}) => handler[h].vault # "unreadable")
      /\ VerdictOf(h).cred = handler[h].cred
  BY DEF VerdictOf
<1>5. VerdictOf(h) \in Verdict
  BY <1>2 DEF VerdictOf, Verdict
<1>6. ASSUME VerdictOf(h).valid
      PROVE  VouchedSince(VerdictOf(h), handler[h].origin.since)
  <2>1. At(h, {"stake"}) /\ ~At(h, {"rejected"}) /\ At(h, {"active", "stake"})
    BY <1>4, <1>6 DEF At
  <2>2. VerdictOf(h).bondChecked => handler[h].vault = "enough"
    BY <1>3, <1>4, <1>6
  <2> QED
    BY <1>1, <1>2, <1>4, <2>1, <2>2 DEF HandlerSound, VouchedSince, Fact
<1>7. ~VerdictOf(h).bondChecked => unreadAt # 0 /\ unreadAt >= handler[h].origin.since
  BY <1>1, <1>2, <1>4 DEF HandlerSound
<1> QED
  BY <1>5, <1>6, <1>7

\* An answer and, perhaps, a cache entry of the same verdict.
LEMMA FinishStep ==
  ASSUME Grounded, NEW h \in Handler, Finish(h)
  PROVE  Grounded' /\ AnswerSound'
<1>1. PICK v \in Verdict, o \in Origin :
        /\ Send(v, o)
        /\ \/ cache' = [at |-> now, body |-> v] /\ v.bondChecked
           \/ cache' = cache
        /\ handler' = [handler EXCEPT ![h] = Idle]
        /\ UNCHANGED <<chainVars, registerVars, unreadAt>>
        /\ o.since \in Nat /\ o.since <= now /\ now - o.since <= MaxLatency
        /\ v.valid => VouchedSince(v, o.since)
        /\ ~v.bondChecked => unreadAt # 0 /\ unreadAt >= o.since
  <2>1. /\ At(h, {"stake", "rejected"}) /\ ~At(h, {"idle"}) /\ handler[h].vault # "pending"
        /\ Send(VerdictOf(h), handler[h].origin)
        /\ \/ cache' = [at |-> now, body |-> VerdictOf(h)] /\ VerdictOf(h).bondChecked
           \/ cache' = cache
        /\ handler' = [handler EXCEPT ![h] = Idle]
        /\ UNCHANGED <<chainVars, registerVars, unreadAt>>
    BY DEF Finish, At
  <2>2. /\ handler[h].origin \in Origin /\ handler[h].origin.since \in Nat
        /\ handler[h].origin.since <= now /\ now - handler[h].origin.since <= MaxLatency
    BY <2>1, HandlerTypes DEF Grounded, HandlersSound, HandlerSound
  <2> QED
    BY <2>1, <2>2, VerdictIsOfTheRequest
<1>2. /\ now \in Nat /\ unreadAt \in Nat /\ MaxLatency \in Nat /\ TTL \in Nat \ {0}
  BY VerifyAssumption DEF Grounded, TypeOK
<1>3. PICK t \in Int : t = now - MaxLatency
  BY <1>2
<1>4. v.valid => /\ VouchedSince(v, now + 1 - TTL - MaxLatency)
                 /\ VouchedSince(v, t)
  BY <1>1, <1>2, <1>3, VouchedEarlier DEF Grounded
<1>5. AnswerSound'
  BY <1>1, <1>2, <1>4, AnswerSent DEF Grounded
<1>6. cache' = cache \/ (cache' \in Entry /\ CacheSound')
  <2> SUFFICES ASSUME cache' = [at |-> now, body |-> v], v.bondChecked
               PROVE  cache' \in Entry /\ CacheSound'
    BY <1>1
  <2>1. cache'.at = now /\ cache'.body = v /\ cache' \in Entry
    BY <1>2 DEF Entry
  <2>2. UNCHANGED <<now, holds, lostAt, replacedAt>>
    BY <1>1 DEF chainVars, registerVars
  <2>3. v.valid => VouchedSince(v, t)'
    BY <1>4, <2>2 DEF VouchedSince, HeldSince
  <2>4. (cache.body)' = v /\ (cache.at - MaxLatency)' = t
    BY <1>3, <2>1
  <2>5. v.valid => VouchedSince(cache.body, cache.at - MaxLatency)'
    BY <2>3, <2>4 DEF VouchedSince, HeldSince
  <2> QED
    BY <1>2, <2>1, <2>2, <2>5 DEF CacheSound
<1>7. handler'[h] = Idle => HandlerSound(h)'
  BY DEF HandlerSound, At, Idle
<1>8. answer' \in Answer
  BY <1>1 DEF Send, Answer
<1> QED
  BY <1>1, <1>5, <1>6, <1>7, <1>8, HandlerStep

\* A hit is younger than TTL, its verdict at most one latency older.
LEMMA HitStep ==
  ASSUME Grounded, AnswerFromCache
  PROVE  Grounded' /\ AnswerSound'
<1> DEFINE o == [kind |-> "default", since |-> now, confirmed |-> confirmed]
<1>1. /\ cache # NoEntry /\ now - cache.at < TTL
      /\ Send(cache.body, o)
      /\ UNCHANGED <<chainVars, registerVars, cache, handler, unreadAt>>
  BY DEF AnswerFromCache, Fresh
<1>2. /\ cache \in Entry /\ cache.at \in Nat /\ cache.body \in Verdict /\ o \in Origin
      /\ o.kind # "uncached"
      /\ now \in Nat /\ MaxLatency \in Nat /\ TTL \in Nat
  BY <1>1, VerifyAssumption DEF Grounded, TypeOK, Entry, Origin, Kind
<1>3. /\ cache.body.bondChecked
      /\ cache.body.valid => VouchedSince(cache.body, cache.at - MaxLatency)
  BY <1>1 DEF Grounded, CacheSound
<1>4. cache.body.valid => VouchedSince(cache.body, now + 1 - TTL - MaxLatency)
  BY <1>1, <1>2, <1>3, VouchedEarlier DEF Grounded
<1> HIDE DEF o
<1>5. AnswerSound'
  BY <1>1, <1>2, <1>3, <1>4, AnswerSent DEF Grounded
<1>6. answer' \in Answer
  BY <1>1, <1>2 DEF Send, Answer
<1>7. TypeOK'
  BY <1>1, <1>6 DEF Grounded, TypeOK, chainVars, registerVars
<1>8. /\ UNCHANGED <<now, holds, lostAt, replacedAt, cache, handler, unreadAt>>
      /\ NewestStands'
  BY <1>1 DEF Grounded, NewestStands, chainVars, registerVars
<1>9. \A m \in 1..MaxNonce : replacedAt'[m] \in {replacedAt[m], now}
  BY <1>8
<1> QED
  BY <1>5, <1>7, <1>8, <1>9, StepAtOneInstant

-----------------------------------------------------------------------------

\* Every reachable state satisfies IInv.
THEOREM Invariance == Spec => []IInv
<1>1. ASSUME IInv, Next PROVE IInv'
  <2> USE DEF IInv
  <2>1. CASE Tick
    BY <1>1, <2>1, TickStep, Silence DEF Tick
  <2>2. ASSUME NEW f \in Fact, ChainMoves(f) PROVE IInv'
    BY <1>1, <2>2, ChainStep, Silence DEF ChainMoves
  <2>3. ASSUME NEW e \in now + 1 .. MaxTime + 1, StoreCredential(e) PROVE IInv'
    BY <1>1, <2>3, StoreStep, Silence DEF StoreCredential
  <2>4. ASSUME NEW n \in unconfirmed, ConfirmIssue(n) \/ AuditFails(n) PROVE IInv'
    BY <1>1, <2>4, IssueEndsStep, Silence DEF ConfirmIssue, AuditFails
  <2>5. CASE AnswerFromCache
    BY <1>1, <2>5, HitStep
  <2>6. ASSUME NEW h \in Handler, NEW kind \in Kind, Start(h, kind) PROVE IInv'
    BY <1>1, <2>6, StartStep, Silence DEF Start
  <2>7. ASSUME NEW h \in Handler, ReadRow(h) PROVE IInv'
    BY <1>1, <2>7, ReadRowStep, Silence DEF ReadRow
  <2>8. ASSUME NEW h \in Handler, NEW outcome, ReadVault(h, outcome) PROVE IInv'
    BY <1>1, <2>8, ReadVaultStep, Silence DEF ReadVault
  <2>9. ASSUME NEW h \in Handler, ReadHumanRoot(h) \/ ReadRevocation(h) PROVE IInv'
    BY <1>1, <2>9, LookStep, Silence DEF ReadHumanRoot, ReadRevocation, Look
  <2>10. ASSUME NEW h \in Handler, Finish(h) PROVE IInv'
    BY <1>1, <2>10, FinishStep
  <2>11. ASSUME NEW h \in Handler, Fail(h) PROVE IInv'
    BY <1>1, <2>11, FailStep, Silence DEF Fail
  <2>12. CASE Restart
    BY <1>1, <2>12, RestartStep, Silence DEF Restart
  <2> HIDE DEF IInv
  <2> QED
    BY <1>1, <2>1, <2>2, <2>3, <2>4, <2>5, <2>6, <2>7, <2>8, <2>9, <2>10, <2>11, <2>12 DEF Next
<1>2. IInv /\ UNCHANGED vars => IInv'
  <2> SUFFICES ASSUME IInv, UNCHANGED vars PROVE IInv'
    OBVIOUS
  <2>1. UNCHANGED <<now, holds, lostAt, row, replacedAt, unconfirmed, confirmed, cache, handler,
                    unreadAt, answer>>
    BY DEF vars, chainVars, registerVars
  <2> QED
    BY <2>1
    DEF IInv, Grounded, TypeOK, HandlersSound, HandlerSound, CacheSound, NewestStands, At,
        AnswerSound, BoundedStaleness, UncachedIsLive, UncheckedIsTransient, Says,
        VouchedSince, HeldSince
<1> QED
  BY Initially, <1>1, <1>2, PTL DEF Spec

\* The variables of the service keep their types.
THEOREM TypeCorrect == Spec => []TypeOK
<1>1. IInv => TypeOK
  BY DEF IInv, Grounded
<1> QED
  BY <1>1, Invariance, PTL

\* No part of a valid answer is older than TTL and one verification together.
THEOREM Bounded == Spec => []BoundedStaleness
<1>1. IInv => BoundedStaleness
  BY DEF IInv, AnswerSound
<1> QED
  BY <1>1, Invariance, PTL

\* An answer past the cache is of the time of its request.
THEOREM Live == Spec => []UncachedIsLive
<1>1. IInv => UncachedIsLive
  BY DEF IInv, AnswerSound
<1> QED
  BY <1>1, Invariance, PTL

\* A valid answer without the bond does not outlast the failure behind it.
THEOREM Transient == Spec => []UncheckedIsTransient
<1>1. IInv => UncheckedIsTransient
  BY DEF IInv, AnswerSound
<1> QED
  BY <1>1, Invariance, PTL

=============================================================================
