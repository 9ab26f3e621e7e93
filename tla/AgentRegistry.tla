--------------------------- MODULE AgentRegistry ---------------------------
(***************************************************************************)
(* POST /agent/issue: the API's register of credentials, composed with the *)
(* contracts (AgentBond).  The handler awaits between its reads, so its    *)
(* checks of one request are made at different times, while the chain      *)
(* moves and other requests run; only issueAgentCredential is one          *)
(* serializable transaction.                                               *)
(***************************************************************************)
EXTENDS AgentBond, Integers, FiniteSets

CONSTANTS
  Human,          \* GoodDollar's roots: the face-verified humans
  MaxPerHuman,    \* MAX_AGENTS_PER_HUMAN
  MaxNonce,       \* bound: credential nonces are 0..MaxNonce
  Request,        \* requests in flight at one time
  KeepsOperator   \* TRUE: the deployed AgentVault; FALSE: AgentVaultV2

ASSUME RegistryAssumption ==
  /\ NoAddress \notin Account
  /\ MaxPerHuman \in Nat \ {0}
  /\ MaxNonce \in Nat
  /\ KeepsOperator \in BOOLEAN
  /\ IsFiniteSet(Agent)

VARIABLES
  attested,    \* agents with provenAt # 0 in AgentAttestation
  seenProofs,  \* history: agents with a register proof seenAuthNonces accepted
  rows,        \* the agent_credentials table, by agent
  request,     \* the handlers in flight
  everRevoked  \* history: agents that were ever revoked on chain

registryVars == <<attested, seenProofs, rows, request, everRevoked>>
vars == <<bondVars, registryVars>>

\* What the operator signs.  Its signature is taken as good and in time: one
\* that is not ends the request and changes nothing.
Credential ==
  [agent : Agent, operator : Account, humanRoot : Human, nonce : 0..MaxNonce]

NoRow == [operator |-> NoAddress]
Row == [operator : Account, humanRoot : Human, nonce : 0..MaxNonce]

Registered(a) == rows[a] # NoRow

\* Where a handler is: the await it will resume from.
Stage == {"vault", "rows", "revocations", "issue"}
Idle == [stage |-> "idle"]
InFlight ==
  [stage : Stage, cred : Credential,
   candidates : SUBSET Agent,   \* capCandidates
   excluded : SUBSET Agent]     \* excludeFromCap

TypeOK ==
  /\ BondTypeOK
  /\ attested \subseteq Agent
  /\ seenProofs \subseteq Agent
  /\ rows \in [Agent -> Row \cup {NoRow}]
  /\ request \in [Request -> InFlight \cup {Idle}]
  /\ everRevoked \subseteq Agent

Init ==
  /\ BondInit
  /\ attested = {}
  /\ seenProofs = {}
  /\ rows = [a \in Agent |-> NoRow]
  /\ request = [r \in Request |-> Idle]
  /\ everRevoked = {}

-----------------------------------------------------------------------------

\* A transaction on the contracts; the deployed vault never drops a binding.
ContractStep ==
  /\ BondNext
  /\ KeepsOperator =>
       \A a \in Agent : operator[a] # NoAddress => operator'[a] = operator[a]
  /\ everRevoked' = everRevoked \cup {a \in Agent : revoked'[a]}
  /\ UNCHANGED <<attested, seenProofs, rows, request>>

\* attest() or attestFor(), final.
Attest(a) ==
  /\ attested' = attested \cup {a}
  /\ UNCHANGED <<bondVars, seenProofs, rows, request, everRevoked>>

\* Handler r is now at next; the chain and the register are as they were.
Continue(r, next) ==
  /\ request' = [request EXCEPT ![r] = next]
  /\ UNCHANGED <<bondVars, attested, rows, everRevoked>>

At(r, stage) == request[r].stage = stage
Cred(r) == request[r].cred

\* Mutant: the proof is booked under the operator's address.
CheckAttestationOfOperator(r, cred) ==
  /\ At(r, "idle")
  /\ \/ cred.agent \in attested /\ UNCHANGED seenProofs
     \/ cred.agent \notin attested /\ seenProofs' = seenProofs \cup {cred.operator}
  /\ Continue(r, [stage |-> "vault", cred |-> cred,
                  candidates |-> {}, excluded |-> {}])

\* Mutant: agentProof is optional.
CheckAttestationOptional(r, cred) ==
  /\ At(r, "idle")
  /\ UNCHANGED seenProofs
  /\ Continue(r, [stage |-> "vault", cred |-> cred,
                  candidates |-> {}, excluded |-> {}])

\* The agent consents first: attested on chain, or else a fresh proof of its
\* key, claimed at once by claimAuthNonce whatever becomes of the request.
CheckAttestation(r, cred) ==
  /\ At(r, "idle")
  /\ \/ cred.agent \in attested /\ UNCHANGED seenProofs
     \/ cred.agent \notin attested /\ seenProofs' = seenProofs \cup {cred.agent}
  /\ Continue(r, [stage |-> "vault", cred |-> cred,
                  candidates |-> {}, excluded |-> {}])

\* Mutant: any bond will do.
CheckVaultAnyOwner(r) ==
  /\ At(r, "vault")
  /\ bonded[Cred(r).agent]
  /\ Continue(r, [request[r] EXCEPT !.stage = "rows"])
  /\ UNCHANGED seenProofs

\* verifyAgentId, then the vault: the bond is in place and owned by the
\* credential's operator.  Who a wallet's human is, the identity contract says
\* and may say otherwise later: that it names cred.humanRoot is a choice here.
CheckVault(r) ==
  /\ At(r, "vault")
  /\ bonded[Cred(r).agent]
  /\ operator[Cred(r).agent] = Cred(r).operator
  /\ Continue(r, [request[r] EXCEPT !.stage = "rows"])
  /\ UNCHANGED seenProofs

\* The stored rows of human h, but agent a's own.
RowsOf(h, a) == {b \in Agent \ {a} : Registered(b) /\ rows[b].humanRoot = h}

ReadRows(r) ==
  /\ At(r, "rows")
  /\ Continue(r, [request[r] EXCEPT
                    !.stage = "revocations",
                    !.candidates = RowsOf(Cred(r).humanRoot, Cred(r).agent)])
  /\ UNCHANGED seenProofs

\* Mutant: a read that fails counts as "revoked".
ReadRevocationsFailsOpen(r) ==
  /\ At(r, "revocations")
  /\ \E answered \in SUBSET request[r].candidates :
       Continue(r, [request[r] EXCEPT
                      !.stage = "issue",
                      !.candidates = {},
                      !.excluded = {b \in request[r].candidates :
                                      b \in answered => revoked[b]}])
  /\ UNCHANGED seenProofs

\* One multicall; a read that fails counts as "not revoked".
ReadRevocations(r) ==
  /\ At(r, "revocations")
  /\ \E answered \in SUBSET request[r].candidates :
       Continue(r, [request[r] EXCEPT
                      !.stage = "issue",
                      !.candidates = {},
                      !.excluded = {b \in answered : revoked[b]}])
  /\ UNCHANGED seenProofs

\* Mutant: an older credential is as good as a newer one.
AdmitsAnyNonce(r) ==
  LET c == Cred(r) IN
  /\ Registered(c.agent) => rows[c.agent].operator = c.operator
  /\ Cardinality(RowsOf(c.humanRoot, c.agent) \ request[r].excluded) < MaxPerHuman

\* Mutant: a revoked agent takes no place, so it needs none to come back.
AdmitsRevokedBeyondCap(r) ==
  LET c == Cred(r) IN
  /\ Registered(c.agent) =>
       rows[c.agent].operator = c.operator /\ c.nonce > rows[c.agent].nonce
  /\ \/ revoked[c.agent]
     \/ Cardinality(RowsOf(c.humanRoot, c.agent) \ request[r].excluded) < MaxPerHuman

\* issueAgentCredential, serializable: same operator, a newer nonce, and the
\* human's other rows, but for the excluded ones, below the cap.
Admits(r) ==
  LET c == Cred(r) IN
  /\ Registered(c.agent) =>
       rows[c.agent].operator = c.operator /\ c.nonce > rows[c.agent].nonce
  /\ Cardinality(RowsOf(c.humanRoot, c.agent) \ request[r].excluded) < MaxPerHuman

\* The audit entry and the 201 follow (AgentVerify has what they do to the cache).
Issue(r) ==
  LET c == Cred(r) IN
  /\ At(r, "issue")
  /\ Admits(r)
  /\ rows' = [rows EXCEPT ![c.agent] = [operator  |-> c.operator,
                                        humanRoot |-> c.humanRoot,
                                        nonce     |-> c.nonce]]
  /\ request' = [request EXCEPT ![r] = Idle]
  /\ UNCHANGED <<bondVars, attested, seenProofs, everRevoked>>

\* An error response: a check failed, or a read or the database did; the
\* process stopping ends a handler in the same way.
Refuse(r) ==
  /\ ~At(r, "idle")
  /\ Continue(r, Idle)
  /\ UNCHANGED seenProofs

Next ==
  \/ ContractStep
  \/ \E a \in Agent : Attest(a)
  \/ \E r \in Request :
       \/ \E cred \in Credential : CheckAttestation(r, cred)
       \/ CheckVault(r)
       \/ ReadRows(r)
       \/ ReadRevocations(r)
       \/ Issue(r)
       \/ Refuse(r)

Spec == Init /\ [][Next]_vars

-----------------------------------------------------------------------------

\* Agent first: no address is registered whose key has not consented, on chain
\* or by a proof, however requests, restarts and the chain interleave.
AgentConsented == \A a \in Agent : Registered(a) => a \in attested \cup seenProofs

\* "on-chain and off-chain authority agree" (AgentRevocation.sol:17-20): while
\* a bond stands behind a registered agent, its owner, who alone may revoke the
\* agent, is the operator of the registration.  The handler reads the vault
\* several awaits before it writes the row, and nothing reads both again.
AuthoritiesAgree ==
  \A a \in Agent :
    Registered(a) /\ bonded[a] => operator[a] = rows[a].operator

\* A registration is replaced only by a newer credential of the same operator,
\* whatever old signed credentials are submitted again, at once or later.
RegistrationMonotone ==
  [][\A a \in Agent :
       Registered(a) /\ rows'[a] # rows[a] =>
         rows'[a].operator = rows[a].operator /\ rows'[a].nonce > rows[a].nonce]_vars

\* The agents registered for human h, in a set of agents that counts.
Vouched(h, counted) ==
  {a \in counted : Registered(a) /\ rows[a].humanRoot = h}

\* The cap as the code keeps it: agents that were never revoked number at most
\* MaxPerHuman for a human, even with several requests racing for the last place.
CapOfNeverRevoked ==
  \A h \in Human : Cardinality(Vouched(h, Agent \ everRevoked)) <= MaxPerHuman

\* The register as its readers see it: agents that consented by either way.
Register == INSTANCE CredentialRegister WITH
              consented <- attested \cup seenProofs,
              exempt    <- everRevoked

\* However handlers, transactions and consents interleave, each registration
\* is as if made in one step: what the handler found at its earlier awaits
\* still binds when it commits, or was allowed to change.
ImplementsRegister == Register!RegisterSpec

=============================================================================
