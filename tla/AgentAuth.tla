----------------------------- MODULE AgentAuth -----------------------------
(***************************************************************************)
(* The agent's proof of its key, as the API accepts it: POST /agent/issue  *)
(* (audience "register") and POST /agent/verify-auth check that a proof is *)
(* fresh, await the recovery of its signer, and claim its nonce in a map   *)
(* in memory that forgets after a time and is swept when it grows.  A      *)
(* request carries the nonce as text: the signature is checked for the     *)
(* number it reads as, the map is keyed by the text itself.                *)
(***************************************************************************)
EXTENDS Integers, FiniteSets

CONSTANTS
  Agent,       \* the agents' addresses
  Audience,    \* the services a proof may be scoped to
  Register,    \* "gooddollar-agent-id:register"
  Nonce,       \* nonces, the numbers that are signed
  Text,        \* the texts a nonce may be written as in a request
  Reads,       \* BigInt(text), of those: a number may be written in several ways
  Signed,      \* the proofs the agents' keys ever sign
  Request,     \* requests in flight at one time
  MaxAge,      \* maxAgeSeconds, by endpoint
  Skew,        \* clockSkewSeconds
  SeenTTL,     \* AUTH_SEEN_TTL_MS
  SeenLimit,   \* entries the map may hold without a sweep
  MaxLatency,  \* assumption: what the recovery of a signer takes at most
  MaxTime      \* bound: the last instant explored

Endpoint == {"issue", "verify-auth"}

\* What the agent signs.  The signature is taken as the agent's: a request
\* with any other ends before the claim and changes nothing.
Proof == [agent : Agent, audience : Audience, nonce : Nonce, issuedAt : Nat]

\* What a request carries: a signed proof, with a text that reads as its nonce.
\* The signature holds for no other; what does not read as a number at all ends
\* the request.
Wire == {w \in [proof : Proof, text : Text] : Reads[w.text] = w.proof.nonce}

ASSUME AuthAssumption ==
  /\ Register \in Audience
  /\ Signed \subseteq Proof
  /\ Reads \in [Text -> Nonce]
  /\ MaxAge \in [Endpoint -> Nat]
  /\ Skew \in Nat
  /\ SeenTTL \in Nat
  /\ SeenLimit \in Nat
  /\ MaxLatency \in Nat
  /\ MaxTime \in Nat

\* "safely exceeds the longest max-age we use" (apps/api/src/index.ts:122): by
\* enough for a clock that runs ahead, and for the wait.
ASSUME TTLAssumption == \A e \in Endpoint : SeenTTL > MaxAge[e] + Skew + MaxLatency

VARIABLES
  now,
  seen,      \* seenAuthNonces: when the entry of a key expires, 0 = no entry
  request,   \* the handlers between the check of a proof and its claim
  accepted   \* history: what was accepted since the process started

vars == <<now, seen, request, accepted>>

Key == Agent \X Audience \X Text

\* Mutant: the audience is no part of the key.
KeyOfAgent(w) == <<w.proof.agent, Register, w.text>>

\* The key has the nonce as it was written, not the number.
KeyOf(w) == <<w.proof.agent, w.proof.audience, w.text>>

Idle == [wire |-> "none"]
InFlight == [wire : Wire, endpoint : Endpoint, checkedAt : Nat]

TypeOK ==
  /\ now \in Nat \ {0}
  /\ seen \in [Key -> Nat]
  /\ request \in [Request -> InFlight \cup {Idle}]
  /\ accepted \subseteq Wire

Init ==
  /\ now = 1
  /\ seen = [k \in Key |-> 0]
  /\ request = [r \in Request |-> Idle]
  /\ accepted = {}

-----------------------------------------------------------------------------

Tick ==
  /\ now < MaxTime
  /\ \A r \in Request : request[r] # Idle => now - request[r].checkedAt < MaxLatency
  /\ now' = now + 1
  /\ UNCHANGED <<seen, request, accepted>>

\* verifyAgentAuth's window: not from the future but for the skew, not too old.
Fresh(p, e) ==
  /\ p.issuedAt <= now + Skew
  /\ now - p.issuedAt <= MaxAge[e]

\* A request comes in: its text reads as the nonce of a signed proof, which is
\* fresh, and the signer is being recovered.
Check(r, w, e) ==
  /\ request[r] = Idle
  /\ Reads[w.text] = w.proof.nonce
  /\ e = "issue" => w.proof.audience = Register
  /\ Fresh(w.proof, e)
  /\ request' = [request EXCEPT ![r] = [wire |-> w, endpoint |-> e, checkedAt |-> now]]
  /\ UNCHANGED <<now, seen, accepted>>

\* Mutant: the sweep empties the map.
SweptClears ==
  IF Cardinality({k \in Key : seen[k] # 0}) > SeenLimit
  THEN [k \in Key |-> 0]
  ELSE seen

\* The map as claimAuthNonce leaves it before it looks the key up.
Swept ==
  IF Cardinality({k \in Key : seen[k] # 0}) > SeenLimit
  THEN [k \in Key |-> IF now > seen[k] THEN 0 ELSE seen[k]]
  ELSE seen

\* Mutant: the entry's life is counted backwards.
AcceptBackdated(r) ==
  /\ request[r] # Idle
  /\ now >= Swept[KeyOf(request[r].wire)]
  /\ seen' = [Swept EXCEPT ![KeyOf(request[r].wire)] = now - SeenTTL]
  /\ accepted' = accepted \cup {request[r].wire}
  /\ request' = [request EXCEPT ![r] = Idle]
  /\ UNCHANGED now

\* claimAuthNonce: true, and the handler goes on.
Accept(r) ==
  /\ request[r] # Idle
  /\ LET w == request[r].wire
         k == KeyOf(w)
     IN  /\ now >= Swept[k]
         /\ seen' = [Swept EXCEPT ![k] = now + SeenTTL]
         /\ accepted' = accepted \cup {w}
  /\ request' = [request EXCEPT ![r] = Idle]
  /\ UNCHANGED now

\* claimAuthNonce: false, and the request is refused as a replay.
Refuse(r) ==
  /\ request[r] # Idle
  /\ now < Swept[KeyOf(request[r].wire)]
  /\ seen' = Swept
  /\ request' = [request EXCEPT ![r] = Idle]
  /\ UNCHANGED <<now, accepted>>

\* The process starts again, with an empty map.
Restart ==
  /\ seen' = [k \in Key |-> 0]
  /\ request' = [r \in Request |-> Idle]
  /\ accepted' = {}
  /\ UNCHANGED now

Next ==
  \/ Tick
  \/ \E r \in Request :
       \/ \E p \in Signed, t \in Text, e \in Endpoint :
            Check(r, [proof |-> p, text |-> t], e)
       \/ Accept(r)
       \/ Refuse(r)
  \/ Restart

Spec == Init /\ [][Next]_vars

-----------------------------------------------------------------------------

\* "We reject any (agent, audience, nonce) triple we've already accepted, keeping
\* each single-use for its whole validity window" (index.ts:116-121), of nonces
\* as they are written: no proof is accepted twice with one text by one process,
\* whatever was forgotten or swept since, and however two requests with it
\* interleave.
SingleUseAsWritten ==
  [][\A r \in Request : Accept(r) => request[r].wire \notin accepted]_vars

\* The same of nonces as they are signed, which is what makes a proof single-use:
\* it is accepted once, however its nonce is written.
SingleUse ==
  [][\A r \in Request :
       Accept(r) => \A w \in accepted : w.proof # request[r].wire.proof]_vars

\* "Bound per agent+audience so distinct verifiers don't collide" (index.ts:127):
\* a request is refused as a replay only if a proof of the same agent, for the
\* same audience and with the same nonce, written alike, was accepted before.
RefusedOnlyReplays ==
  [][\A r \in Request :
       Refuse(r) =>
         \E v \in accepted :
           LET w == request[r].wire IN
           /\ v.proof.agent = w.proof.agent
           /\ v.proof.audience = w.proof.audience
           /\ v.proof.nonce = w.proof.nonce
           /\ v.text = w.text]_vars

=============================================================================
