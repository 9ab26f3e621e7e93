-------------------------- MODULE AgentAuth_proofs --------------------------
(***************************************************************************)
(* The replay guard for any number of requests, proofs and sweeps.  The    *)
(* argument: what was accepted either has an entry under its key, which    *)
(* outlives every request that may still carry it, or is too old for any   *)
(* such request.  The key is made of the nonce's text, so this bounds the  *)
(* uses of a proof by text; nothing bounds them by number.                 *)
(***************************************************************************)
EXTENDS AgentAuth, TLAPS

\* A request in flight carries a proof that was fresh a short while ago.
RequestSound(r) ==
  request[r] # Idle =>
    /\ request[r].checkedAt <= now
    /\ now - request[r].checkedAt <= MaxLatency
    /\ request[r].wire.proof.issuedAt <= request[r].checkedAt + Skew
    /\ request[r].checkedAt - request[r].wire.proof.issuedAt <= MaxAge[request[r].endpoint]

\* No request can claim w at time t or later.
DeadAt(w, t) == \A e \in Endpoint : t > w.proof.issuedAt + MaxAge[e] + MaxLatency

Remembered(w) == DeadAt(w, seen[KeyOf(w)]) \/ DeadAt(w, now)

\* Every entry of the map was made for an accepted proof.
EntriesEarned == \A k \in Key : seen[k] # 0 => \E w \in accepted : KeyOf(w) = k

IInv ==
  /\ TypeOK
  /\ \A r \in Request : RequestSound(r)
  /\ \A w \in accepted : Remembered(w)
  /\ EntriesEarned

\* The sweep drops entries whose time has run out, and no others.
LEMMA SweptDrops ==
  ASSUME TypeOK
  PROVE  /\ Swept \in [Key -> Nat]
         /\ \A k \in Key : Swept[k] = seen[k] \/ (Swept[k] = 0 /\ seen[k] < now)
<1>1. CASE Cardinality({k \in Key : seen[k] # 0}) > SeenLimit
  <2>1. Swept = [k \in Key |-> IF now > seen[k] THEN 0 ELSE seen[k]]
    BY <1>1 DEF Swept
  <2> QED
    BY <2>1 DEF TypeOK
<1>2. CASE ~(Cardinality({k \in Key : seen[k] # 0}) > SeenLimit)
  <2>1. Swept = seen
    BY <1>2 DEF Swept
  <2> QED
    BY <2>1 DEF TypeOK
<1> QED
  BY <1>1, <1>2

\* What a request carries belongs to a key of the map.
LEMMA KeyTyped == ASSUME NEW w \in Wire PROVE KeyOf(w) \in Key
  BY DEF Wire, Proof, KeyOf, Key

\* A request in flight has the shape of one.
LEMMA InFlightTyped ==
  ASSUME TypeOK, NEW r \in Request, request[r] # Idle
  PROVE  request[r] \in InFlight
  BY DEF TypeOK

\* What a sweep leaves still remembers every accepted proof.
LEMMA SweptRemembers ==
  ASSUME TypeOK, NEW w \in accepted, Remembered(w)
  PROVE  DeadAt(w, Swept[KeyOf(w)]) \/ DeadAt(w, now)
<1>1. KeyOf(w) \in Key /\ w \in Wire
  BY KeyTyped DEF TypeOK
<1>2. CASE DeadAt(w, now)
  BY <1>2
<1>3. CASE DeadAt(w, seen[KeyOf(w)])
  <2>1. CASE Swept[KeyOf(w)] = seen[KeyOf(w)]
    BY <1>3, <2>1
  <2>2. CASE seen[KeyOf(w)] < now
    BY <1>1, <1>3, <2>2, AuthAssumption DEF DeadAt, TypeOK, Wire, Proof
  <2> QED
    BY <1>1, <2>1, <2>2, SweptDrops
<1> QED
  BY <1>2, <1>3 DEF Remembered

\* The guard knows nothing at the start.
LEMMA Initially == Init => IInv
  BY DEF Init, IInv, TypeOK, RequestSound, EntriesEarned, Wire, Proof

\* A claim that succeeds is of a proof not accepted before.
LEMMA ClaimIsFirst ==
  ASSUME IInv, NEW r \in Request, Accept(r)
  PROVE  request[r].wire \notin accepted
<1> DEFINE w == request[r].wire
<1> SUFFICES ASSUME w \in accepted PROVE FALSE
  OBVIOUS
<1>1. request[r] \in InFlight /\ request[r] # Idle
  BY InFlightTyped DEF IInv, Accept
<1>2. now >= Swept[KeyOf(w)]
  BY DEF Accept
<1>3. w \in Wire /\ KeyOf(w) \in Key /\ request[r].endpoint \in Endpoint
  BY <1>1, KeyTyped DEF InFlight
<1>4. DeadAt(w, Swept[KeyOf(w)]) \/ DeadAt(w, now)
  BY SweptRemembers DEF IInv
<1>5. Swept[KeyOf(w)] \in Nat
  BY <1>3, SweptDrops DEF IInv
<1>6. DeadAt(w, now)
  BY <1>2, <1>3, <1>4, <1>5, AuthAssumption DEF DeadAt, IInv, TypeOK, Wire, Proof
<1>7. RequestSound(r)
  BY DEF IInv
<1> QED
  BY <1>1, <1>3, <1>6, <1>7, AuthAssumption
  DEF DeadAt, RequestSound, InFlight, IInv, TypeOK, Wire, Proof

\* Every step keeps the invariant.
LEMMA Invariance == IInv /\ [Next]_vars => IInv'
<1> SUFFICES ASSUME IInv, [Next]_vars PROVE IInv'
  OBVIOUS
<1> USE AuthAssumption
<1>1. CASE Tick
  BY <1>1 DEF Tick, IInv, TypeOK, RequestSound, Remembered, DeadAt, EntriesEarned, Wire, Proof,
              InFlight, KeyOf
<1>2. ASSUME NEW r \in Request, NEW p \in Signed, NEW t \in Text, NEW e \in Endpoint,
             Check(r, [proof |-> p, text |-> t], e)
      PROVE  IInv'
  <2> DEFINE w == [proof |-> p, text |-> t]
  <2>0. w \in Wire
    BY <1>2 DEF Check, Wire
  <2>1. request' = [request EXCEPT ![r] =
                      [wire |-> w, endpoint |-> e, checkedAt |-> now]]
    BY <1>2 DEF Check
  <2>2. UNCHANGED <<now, seen, accepted>>
    BY <1>2 DEF Check
  <2>3. TypeOK'
    BY <2>0, <2>1, <2>2 DEF IInv, TypeOK, InFlight
  <2>4. ASSUME NEW s \in Request PROVE RequestSound(s)'
    <3>1. CASE s = r
      <4>1. request'[s] = [wire |-> w, endpoint |-> e, checkedAt |-> now]
        BY <2>1, <3>1 DEF IInv, TypeOK
      <4> QED
        BY <1>2, <2>0, <2>2, <4>1 DEF Check, Fresh, RequestSound, IInv, TypeOK, Wire, Proof
    <3>2. CASE s # r
      BY <2>1, <2>2, <3>2 DEF IInv, TypeOK, RequestSound
    <3> QED
      BY <3>1, <3>2
  <2> QED
    BY <2>2, <2>3, <2>4 DEF IInv, Remembered, DeadAt, EntriesEarned, KeyOf
<1>3. ASSUME NEW r \in Request, Accept(r) PROVE IInv'
  <2> DEFINE w == request[r].wire
  <2>1. /\ request[r] \in InFlight /\ request[r] # Idle
        /\ w \in Wire /\ KeyOf(w) \in Key
    BY <1>3, InFlightTyped, KeyTyped DEF IInv, Accept, InFlight
  <2>2. /\ seen' = [Swept EXCEPT ![KeyOf(w)] = now + SeenTTL]
        /\ accepted' = accepted \cup {w}
        /\ request' = [request EXCEPT ![r] = Idle]
        /\ now' = now
        /\ now >= Swept[KeyOf(w)]
    BY <1>3 DEF Accept
  <2>3. Swept \in [Key -> Nat]
    BY SweptDrops DEF IInv
  <2>4. TypeOK'
    BY <2>1, <2>2, <2>3 DEF IInv, TypeOK
  <2>5. ASSUME NEW s \in Request PROVE RequestSound(s)'
    BY <2>2 DEF IInv, TypeOK, RequestSound
  <2>6. ASSUME NEW q \in accepted' PROVE Remembered(q)'
    <3>1. CASE q = w
      <4>1. seen'[KeyOf(w)] = now + SeenTTL
        BY <2>1, <2>2, <2>3
      <4>2. w.proof.issuedAt <= now + Skew
        BY <2>1 DEF IInv, TypeOK, RequestSound, InFlight, Wire, Proof
      <4>3. DeadAt(w, now + SeenTTL)
        BY <2>1, <4>2, TTLAssumption DEF DeadAt, IInv, TypeOK, Wire, Proof
      <4> QED
        BY <3>1, <4>1, <4>3 DEF Remembered, DeadAt, KeyOf
    <3>2. CASE q # w
      <4>1. q \in accepted /\ q \in Wire /\ KeyOf(q) \in Key
        BY <2>2, <3>2, KeyTyped DEF IInv, TypeOK
      <4>2. DeadAt(q, Swept[KeyOf(q)]) \/ DeadAt(q, now)
        BY <4>1, SweptRemembers DEF IInv
      <4>3. CASE KeyOf(q) = KeyOf(w)
        <5>1. Swept[KeyOf(q)] \in Nat /\ now >= Swept[KeyOf(q)]
          BY <2>1, <2>2, <2>3, <4>3
        <5>2. DeadAt(q, now)
          BY <4>1, <4>2, <5>1 DEF DeadAt, IInv, TypeOK, Wire, Proof
        <5> QED
          BY <2>2, <5>2 DEF Remembered, DeadAt
      <4>4. CASE KeyOf(q) # KeyOf(w)
        <5>1. seen'[KeyOf(q)] = Swept[KeyOf(q)]
          BY <2>2, <2>3, <4>1, <4>4
        <5> QED
          BY <2>2, <4>2, <5>1 DEF Remembered, DeadAt, KeyOf
      <4> QED
        BY <4>3, <4>4
    <3> QED
      BY <3>1, <3>2
  <2>7. EntriesEarned'
    <3> SUFFICES ASSUME NEW k \in Key, seen'[k] # 0
                 PROVE  \E q \in accepted' : KeyOf(q) = k
      BY DEF EntriesEarned, KeyOf
    <3>1. CASE k = KeyOf(w)
      BY <2>2, <3>1
    <3>2. CASE k # KeyOf(w)
      <4>1. seen'[k] = Swept[k]
        BY <2>2, <2>3, <3>2
      <4>2. seen[k] # 0
        BY <4>1, SweptDrops DEF IInv
      <4> QED
        BY <2>2, <4>2 DEF IInv, EntriesEarned
    <3> QED
      BY <3>1, <3>2
  <2> QED
    BY <2>4, <2>5, <2>6, <2>7 DEF IInv
<1>4. ASSUME NEW r \in Request, Refuse(r) PROVE IInv'
  <2>1. /\ seen' = Swept
        /\ request' = [request EXCEPT ![r] = Idle]
        /\ UNCHANGED <<now, accepted>>
    BY <1>4 DEF Refuse
  <2>2. TypeOK'
    BY <2>1, SweptDrops DEF IInv, TypeOK
  <2>3. ASSUME NEW s \in Request PROVE RequestSound(s)'
    BY <2>1 DEF IInv, TypeOK, RequestSound
  <2>4. ASSUME NEW q \in accepted' PROVE Remembered(q)'
    <3>1. DeadAt(q, Swept[KeyOf(q)]) \/ DeadAt(q, now)
      BY <2>1, SweptRemembers DEF IInv
    <3> QED
      BY <2>1, <3>1 DEF Remembered, DeadAt, KeyOf
  <2>5. EntriesEarned'
    BY <2>1, SweptDrops DEF IInv, EntriesEarned, KeyOf
  <2> QED
    BY <2>2, <2>3, <2>4, <2>5 DEF IInv
<1>5. CASE Restart
  BY <1>5 DEF Restart, IInv, TypeOK, RequestSound, EntriesEarned, Wire, Proof
<1>6. CASE UNCHANGED vars
  BY <1>6 DEF vars, IInv, TypeOK, RequestSound, Remembered, DeadAt, EntriesEarned, KeyOf
<1> QED
  BY <1>1, <1>2, <1>3, <1>4, <1>5, <1>6 DEF Next

\* The inductive invariant holds throughout.
THEOREM Invariant == Spec => []IInv
  BY Initially, Invariance, PTL DEF Spec

\* The guard and its handlers keep their types.
THEOREM TypeCorrect == Spec => []TypeOK
<1>1. IInv => TypeOK
  BY DEF IInv
<1> QED
  BY <1>1, Invariant, PTL

\* claimAuthNonce accepts no proof a second time with its nonce written as it
\* was, while the process runs, for every life of an entry that exceeds the
\* longest window by skew and latency, and whatever number a text reads as.
THEOREM AcceptedOnceAsWritten == Spec => SingleUseAsWritten
<1>1. IInv /\ [Next]_vars =>
        [\A r \in Request : Accept(r) => request[r].wire \notin accepted]_vars
  BY ClaimIsFirst
<1> QED
  BY <1>1, Invariant, PTL DEF Spec, SingleUseAsWritten

\* claimAuthNonce refuses only what shares agent, audience, nonce and its text
\* with what was accepted, so agents and services never collide.
THEOREM OnlyReplaysRefused == Spec => RefusedOnlyReplays
<1> DEFINE Replay(r) ==
      \E v \in accepted :
        LET w == request[r].wire IN
        /\ v.proof.agent = w.proof.agent
        /\ v.proof.audience = w.proof.audience
        /\ v.proof.nonce = w.proof.nonce
        /\ v.text = w.text
<1>1. ASSUME IInv, NEW r \in Request, Refuse(r) PROVE Replay(r)
  <2>1. /\ request[r] \in InFlight /\ request[r].wire \in Wire
        /\ KeyOf(request[r].wire) \in Key
    BY <1>1, InFlightTyped, KeyTyped DEF IInv, Refuse, InFlight
  <2>2. seen[KeyOf(request[r].wire)] # 0
    BY <1>1, <2>1, SweptDrops DEF Refuse, IInv, TypeOK
  <2>3. PICK v \in accepted : KeyOf(v) = KeyOf(request[r].wire)
    BY <1>1, <2>1, <2>2 DEF IInv, EntriesEarned
  <2>4. v \in Wire
    BY <1>1 DEF IInv, TypeOK
  <2> QED
    BY <2>1, <2>3, <2>4 DEF KeyOf, Wire
<1>2. IInv /\ [Next]_vars => [\A r \in Request : Refuse(r) => Replay(r)]_vars
  BY <1>1
<1> QED
  BY <1>2, Invariant, PTL DEF Spec, RefusedOnlyReplays

=============================================================================
