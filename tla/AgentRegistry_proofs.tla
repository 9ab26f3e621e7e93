------------------------ MODULE AgentRegistry_proofs ------------------------
(***************************************************************************)
(* The register of credentials, for any number of agents, humans, wallets  *)
(* and concurrent requests.  Each fact about rows needs a fact about the   *)
(* handlers in flight: what a handler found out at an earlier await must   *)
(* still be good when it commits.                                          *)
(***************************************************************************)
EXTENDS AgentRegistry, FiniteSetTheorems, TLAPS

\* A handler past its first check holds an agent that consented.
ConsentInFlight ==
  \A r \in Request : ~At(r, "idle") => Cred(r).agent \in attested \cup seenProofs

\* A switch that is on was turned on.
RevokedIsRemembered == \A a \in Agent : revoked[a] => a \in everRevoked

\* What a handler leaves out of the cap was revoked at least once.
ExcludedWereRevoked ==
  \A r \in Request : ~At(r, "idle") => request[r].excluded \subseteq everRevoked

\* With permanent bindings, the owner a handler saw is the owner for good, and
\* so is the operator of a row.
OwnersStay ==
  KeepsOperator =>
    /\ \A r \in Request :
         request[r].stage \in {"rows", "revocations", "issue"} =>
           operator[Cred(r).agent] = Cred(r).operator
    /\ \A a \in Agent : Registered(a) => operator[a] = rows[a].operator

IInv ==
  /\ TypeOK
  /\ AgentConsented
  /\ ConsentInFlight
  /\ CapOfNeverRevoked
  /\ RevokedIsRemembered
  /\ ExcludedWereRevoked
  /\ OwnersStay

-----------------------------------------------------------------------------

\* Fewer agents counted are not more than the cap.
LEMMA FewerCounted ==
  ASSUME NEW S \in SUBSET Agent, NEW T, T \subseteq S, Cardinality(S) <= MaxPerHuman
  PROVE  Cardinality(T) <= MaxPerHuman
<1>1. IsFiniteSet(S)
  BY FS_Subset, RegistryAssumption
<1>2. IsFiniteSet(T) /\ Cardinality(T) <= Cardinality(S)
  BY <1>1, FS_Subset
<1> QED
  BY <1>1, <1>2, FS_CardinalityType, RegistryAssumption

\* One agent more than fewer than the cap is within the cap.
LEMMA OneMoreCounted ==
  ASSUME NEW S \in SUBSET Agent, NEW a \in Agent, Cardinality(S) < MaxPerHuman
  PROVE  Cardinality(S \cup {a}) <= MaxPerHuman
<1>1. IsFiniteSet(S)
  BY FS_Subset, RegistryAssumption
<1>2. Cardinality(S) \in Nat /\ Cardinality(S \cup {a}) \in {Cardinality(S), Cardinality(S) + 1}
  BY <1>1, FS_CardinalityType, FS_AddElement
<1> QED
  BY <1>2, RegistryAssumption

\* No row is taken for the absence of one.
LEMMA RowsAreRows == Row \cap {NoRow} = {}
BY RegistryAssumption DEF Row, NoRow

-----------------------------------------------------------------------------

\* Nothing is registered and no handler runs at the start.
LEMMA Initially == Init => IInv
<1> SUFFICES ASSUME Init PROVE IInv
  OBVIOUS
<1> USE DEF Init, BondInit
<1>1. TypeOK
  BY DEF TypeOK, BondTypeOK, Idle, NoRow
<1>2. CapOfNeverRevoked
  <2> SUFFICES ASSUME NEW h \in Human
               PROVE  Cardinality(Vouched(h, Agent \ everRevoked)) <= MaxPerHuman
    BY DEF CapOfNeverRevoked
  <2>1. Vouched(h, Agent \ everRevoked) = {}
    BY DEF Vouched, Registered
  <2> QED
    BY <2>1, FS_EmptySet, RegistryAssumption
<1> QED
  BY <1>1, <1>2
  DEF IInv, AgentConsented, ConsentInFlight, RevokedIsRemembered, ExcludedWereRevoked,
      OwnersStay, At, Cred, Registered, Idle

\* A handler that is not idle is in flight.
LEMMA NotIdle ==
  ASSUME TypeOK, NEW r \in Request, ~At(r, "idle")
  PROVE  request[r] \in InFlight /\ Cred(r) \in Credential
BY DEF TypeOK, At, Idle, InFlight, Cred

\* The chain moves: no row and no handler does, and what was ever revoked grows.
LEMMA ChainStep ==
  ASSUME IInv, ContractStep
  PROVE  IInv'
<1> USE DEF IInv
<1>1. /\ UNCHANGED <<attested, seenProofs, rows, request>>
      /\ everRevoked' = everRevoked \cup {a \in Agent : revoked'[a]}
      /\ BondNext
  BY DEF ContractStep
<1>2. BondTypeOK'
  BY <1>1 DEF BondNext, Bond, Release, SetRevoked, TypeOK, BondTypeOK
<1>3. TypeOK'
  BY <1>1, <1>2 DEF TypeOK
<1>4. CapOfNeverRevoked'
  <2> SUFFICES ASSUME NEW h \in Human
               PROVE  Cardinality(Vouched(h, Agent \ everRevoked)') <= MaxPerHuman
    BY DEF CapOfNeverRevoked
  <2>1. /\ Vouched(h, Agent \ everRevoked)' \subseteq Vouched(h, Agent \ everRevoked)
        /\ Vouched(h, Agent \ everRevoked) \in SUBSET Agent
    BY <1>1 DEF Vouched, Registered
  <2> QED
    BY <2>1, FewerCounted DEF CapOfNeverRevoked
<1>5. OwnersStay'
  <2> SUFFICES ASSUME KeepsOperator PROVE OwnersStay'
    BY DEF OwnersStay
  <2>1. \A a \in Agent : operator[a] # NoAddress => operator'[a] = operator[a]
    BY DEF ContractStep
  <2>2. ASSUME NEW r \in Request, request[r].stage \in {"rows", "revocations", "issue"}
        PROVE  operator'[Cred(r).agent] = Cred(r).operator
    <3>1. Cred(r) \in Credential
      BY <2>2, NotIdle DEF At
    <3>2. Cred(r).operator # NoAddress /\ Cred(r).agent \in Agent
      BY <3>1, RegistryAssumption DEF Credential
    <3> QED
      BY <2>1, <2>2, <3>2 DEF OwnersStay
  <2>3. ASSUME NEW a \in Agent, Registered(a)
        PROVE  operator'[a] = rows[a].operator
    <3>1. rows[a] \in Row
      BY <2>3 DEF Registered, TypeOK
    <3> QED
      BY <2>1, <2>3, <3>1, RegistryAssumption DEF OwnersStay, Row
  <2> QED
    BY <1>1, <2>2, <2>3 DEF OwnersStay, Cred, Registered
<1> QED
  BY <1>1, <1>3, <1>4, <1>5
  DEF AgentConsented, ConsentInFlight, RevokedIsRemembered, ExcludedWereRevoked, At, Cred,
      Registered

\* An attestation only adds to the agents that consented.
LEMMA AttestStep ==
  ASSUME IInv, NEW a \in Agent, Attest(a)
  PROVE  IInv'
<1>1. attested' = attested \cup {a} /\ UNCHANGED <<bondVars, seenProofs, rows, request, everRevoked>>
  BY DEF Attest
<1> QED
  BY <1>1
  DEF IInv, TypeOK, BondTypeOK, bondVars, AgentConsented, ConsentInFlight, CapOfNeverRevoked,
      Vouched, RevokedIsRemembered, ExcludedWereRevoked, OwnersStay, At, Cred, Registered

\* A handler that goes on leaves rows and chain alone: it is enough to look at
\* what it carries on with.
LEMMA ContinueStep ==
  ASSUME IInv, NEW r \in Request, NEW next \in InFlight \cup {Idle},
         Continue(r, next), seenProofs \subseteq seenProofs', seenProofs' \subseteq Agent,
         next # Idle =>
           /\ next.cred.agent \in attested \cup seenProofs'
           /\ next.excluded \subseteq everRevoked
           /\ KeepsOperator /\ next.stage \in {"rows", "revocations", "issue"} =>
                operator[next.cred.agent] = next.cred.operator
  PROVE  IInv'
<1> USE DEF IInv
<1>1. /\ request' = [request EXCEPT ![r] = next]
      /\ UNCHANGED <<bondVars, attested, rows, everRevoked>>
  BY DEF Continue
<1>2. TypeOK'
  BY <1>1 DEF TypeOK, BondTypeOK, bondVars
<1>3. next.stage # "idle" => next # Idle
  BY DEF Idle
<1>4. \A q \in Request : request'[q] = IF q = r THEN next ELSE request[q]
  BY <1>1 DEF TypeOK
<1>5. ConsentInFlight' /\ ExcludedWereRevoked'
  BY <1>1, <1>3, <1>4 DEF ConsentInFlight, ExcludedWereRevoked, At, Cred
<1>6. OwnersStay'
  BY <1>1, <1>3, <1>4 DEF OwnersStay, Cred, Registered, bondVars, Idle
<1>7. AgentConsented' /\ RevokedIsRemembered' /\ CapOfNeverRevoked'
  BY <1>1 DEF AgentConsented, RevokedIsRemembered, CapOfNeverRevoked, Vouched, Registered, bondVars
<1> QED
  BY <1>2, <1>5, <1>6, <1>7

\* A handler that starts leaves the register alone, and its agent has consented.
LEMMA CheckAttestationStep ==
  ASSUME IInv, NEW r \in Request, NEW cred \in Credential, CheckAttestation(r, cred)
  PROVE  IInv'
<1> DEFINE next == [stage |-> "vault", cred |-> cred, candidates |-> {}, excluded |-> {}]
<1>1. next \in InFlight
  BY DEF InFlight, Stage
<1>2. /\ Continue(r, next)
      /\ seenProofs \subseteq seenProofs' /\ seenProofs' \subseteq Agent
      /\ cred.agent \in attested \cup seenProofs'
  BY DEF CheckAttestation, IInv, TypeOK, Credential
<1> QED
  BY <1>1, <1>2, ContinueStep

\* A handler that passes the vault check found its operator bound to the bonded agent.
LEMMA CheckVaultStep ==
  ASSUME IInv, NEW r \in Request, CheckVault(r)
  PROVE  IInv'
<1> DEFINE next == [request[r] EXCEPT !.stage = "rows"]
<1>1. request[r] \in InFlight /\ ~At(r, "idle")
  BY NotIdle DEF CheckVault, At, IInv
<1>2. /\ next \in InFlight
      /\ next.cred = Cred(r) /\ next.excluded = request[r].excluded /\ next.stage = "rows"
  BY <1>1 DEF InFlight, Stage, Cred
<1>3. /\ Continue(r, next) /\ UNCHANGED seenProofs
      /\ operator[Cred(r).agent] = Cred(r).operator
  BY DEF CheckVault
<1> HIDE DEF next
<1> QED
  BY <1>1, <1>2, <1>3, ContinueStep DEF IInv, TypeOK, ConsentInFlight, ExcludedWereRevoked

\* A handler that reads the rows of its human changes only itself.
LEMMA ReadRowsStep ==
  ASSUME IInv, NEW r \in Request, ReadRows(r)
  PROVE  IInv'
<1> DEFINE next == [request[r] EXCEPT
                      !.stage = "revocations",
                      !.candidates = RowsOf(Cred(r).humanRoot, Cred(r).agent)]
<1>1. request[r] \in InFlight /\ ~At(r, "idle") /\ request[r].stage = "rows"
  BY NotIdle DEF ReadRows, At, IInv
<1>2. /\ next \in InFlight
      /\ next.cred = Cred(r) /\ next.excluded = request[r].excluded
  BY <1>1 DEF InFlight, Stage, Cred, RowsOf
<1>3. Continue(r, next) /\ UNCHANGED seenProofs
  BY DEF ReadRows
<1> HIDE DEF next
<1> QED
  BY <1>1, <1>2, <1>3, ContinueStep
  DEF IInv, TypeOK, ConsentInFlight, ExcludedWereRevoked, OwnersStay

\* The agents a handler leaves out of the cap were all revoked at some time.
LEMMA ReadRevocationsStep ==
  ASSUME IInv, NEW r \in Request, ReadRevocations(r)
  PROVE  IInv'
<1>1. request[r] \in InFlight /\ ~At(r, "idle") /\ request[r].stage = "revocations"
  BY NotIdle DEF ReadRevocations, At, IInv
<1>2. PICK answered \in SUBSET request[r].candidates :
        Continue(r, [request[r] EXCEPT !.stage = "issue", !.candidates = {},
                                       !.excluded = {b \in answered : revoked[b]}])
  BY DEF ReadRevocations
<1> DEFINE next == [request[r] EXCEPT !.stage = "issue", !.candidates = {},
                                      !.excluded = {b \in answered : revoked[b]}]
<1>3. answered \subseteq Agent
  BY <1>1, <1>2 DEF InFlight
<1>4. /\ next \in InFlight
      /\ next.cred = Cred(r) /\ next.excluded = {b \in answered : revoked[b]}
  BY <1>1, <1>3 DEF InFlight, Stage, Cred
<1>5. next.excluded \subseteq everRevoked
  BY <1>3, <1>4 DEF IInv, RevokedIsRemembered
<1>6. Continue(r, next) /\ UNCHANGED seenProofs
  BY <1>2 DEF ReadRevocations
<1> HIDE DEF next
<1> QED
  BY <1>1, <1>4, <1>5, <1>6, ContinueStep
  DEF IInv, TypeOK, ConsentInFlight, OwnersStay

\* An error response leaves the register alone.
LEMMA RefuseStep ==
  ASSUME IInv, NEW r \in Request, Refuse(r)
  PROVE  IInv'
<1>1. Continue(r, Idle) /\ UNCHANGED seenProofs
  BY DEF Refuse
<1> QED
  BY <1>1, ContinueStep DEF IInv, TypeOK

-----------------------------------------------------------------------------

\* The transaction: the row it writes is the only one that changes.
LEMMA IssueWrites ==
  ASSUME IInv, NEW r \in Request, Issue(r)
  PROVE  /\ Cred(r) \in Credential
         /\ ~At(r, "idle") /\ request[r].stage = "issue"
         /\ rows'[Cred(r).agent] \in Row
         /\ rows'[Cred(r).agent].operator = Cred(r).operator
         /\ rows'[Cred(r).agent].humanRoot = Cred(r).humanRoot
         /\ rows'[Cred(r).agent].nonce = Cred(r).nonce
         /\ \A b \in Agent \ {Cred(r).agent} : rows'[b] = rows[b]
         /\ TypeOK'
         /\ request' = [request EXCEPT ![r] = Idle]
         /\ UNCHANGED <<bondVars, attested, seenProofs, everRevoked>>
<1>1. Cred(r) \in Credential /\ ~At(r, "idle") /\ request[r].stage = "issue"
  BY NotIdle DEF Issue, At, IInv
<1>2. /\ rows' = [rows EXCEPT ![Cred(r).agent] = [operator  |-> Cred(r).operator,
                                                   humanRoot |-> Cred(r).humanRoot,
                                                   nonce     |-> Cred(r).nonce]]
      /\ request' = [request EXCEPT ![r] = Idle]
      /\ UNCHANGED <<bondVars, attested, seenProofs, everRevoked>>
  BY DEF Issue
<1>3. [operator |-> Cred(r).operator, humanRoot |-> Cred(r).humanRoot,
       nonce |-> Cred(r).nonce] \in Row /\ Cred(r).agent \in Agent
  BY <1>1 DEF Credential, Row
<1>4. /\ rows'[Cred(r).agent] \in Row
      /\ rows'[Cred(r).agent].operator = Cred(r).operator
      /\ rows'[Cred(r).agent].humanRoot = Cred(r).humanRoot
      /\ rows'[Cred(r).agent].nonce = Cred(r).nonce
      /\ \A b \in Agent \ {Cred(r).agent} : rows'[b] = rows[b]
      /\ rows' \in [Agent -> Row \cup {NoRow}]
  BY <1>2, <1>3 DEF IInv, TypeOK
<1>5. request' \in [Request -> InFlight \cup {Idle}]
  BY <1>2 DEF IInv, TypeOK
<1>6. TypeOK'
  BY <1>2, <1>4, <1>5 DEF IInv, TypeOK, BondTypeOK, bondVars
<1> QED
  BY <1>1, <1>2, <1>4, <1>6

\* The agents that count against the cap after the transaction are those the
\* transaction counted, and the new one.
LEMMA IssueKeepsCap ==
  ASSUME IInv, NEW r \in Request, Issue(r)
  PROVE  CapOfNeverRevoked'
<1> DEFINE c == Cred(r)
           others == RowsOf(c.humanRoot, c.agent) \ request[r].excluded
<1>1. /\ c \in Credential /\ ~At(r, "idle")
      /\ rows'[c.agent].humanRoot = c.humanRoot
      /\ \A b \in Agent \ {c.agent} : rows'[b] = rows[b]
      /\ everRevoked' = everRevoked
  BY IssueWrites
<1>2. request[r].excluded \subseteq everRevoked
  BY <1>1 DEF IInv, ExcludedWereRevoked
<1>3. others \in SUBSET Agent /\ c.agent \in Agent /\ Cardinality(others) < MaxPerHuman
  BY <1>1 DEF Issue, Admits, RowsOf, Credential
<1>4. others \cup {c.agent} \in SUBSET Agent /\ Cardinality(others \cup {c.agent}) <= MaxPerHuman
  BY <1>3, OneMoreCounted
<1> SUFFICES ASSUME NEW h \in Human
             PROVE  Cardinality(Vouched(h, Agent \ everRevoked)') <= MaxPerHuman
  BY DEF CapOfNeverRevoked
<1>5. CASE h = c.humanRoot
  <2>1. Vouched(h, Agent \ everRevoked)' \subseteq others \cup {c.agent}
    BY <1>1, <1>2, <1>5 DEF Vouched, Registered, RowsOf
  <2> QED
    BY <1>4, <2>1, FewerCounted
<1>6. CASE h # c.humanRoot
  <2>1. /\ Vouched(h, Agent \ everRevoked)' \subseteq Vouched(h, Agent \ everRevoked)
        /\ Vouched(h, Agent \ everRevoked) \in SUBSET Agent
    BY <1>1, <1>3, <1>6 DEF Vouched, Registered
  <2> QED
    BY <2>1, FewerCounted DEF IInv, CapOfNeverRevoked
<1> QED
  BY <1>5, <1>6

\* The one step that writes the register keeps every part of the invariant.
LEMMA IssueStep ==
  ASSUME IInv, NEW r \in Request, Issue(r)
  PROVE  IInv'
<1> USE DEF IInv
<1> DEFINE c == Cred(r)
<1>1. /\ c \in Credential /\ ~At(r, "idle") /\ request[r].stage = "issue"
      /\ rows'[c.agent].operator = c.operator
      /\ \A b \in Agent \ {c.agent} : rows'[b] = rows[b]
      /\ TypeOK'
      /\ request' = [request EXCEPT ![r] = Idle]
      /\ UNCHANGED <<operator, revoked, attested, seenProofs, everRevoked>>
  BY IssueWrites DEF bondVars
<1>2. \A q \in Request : request'[q] = IF q = r THEN Idle ELSE request[q]
  BY <1>1 DEF TypeOK
<1>3. ConsentInFlight' /\ ExcludedWereRevoked' /\ RevokedIsRemembered'
  BY <1>1, <1>2 DEF ConsentInFlight, ExcludedWereRevoked, RevokedIsRemembered, At, Cred, Idle
<1>4. AgentConsented'
  BY <1>1 DEF AgentConsented, ConsentInFlight, Registered
<1>5. OwnersStay'
  BY <1>1, <1>2 DEF OwnersStay, Registered, Cred, Idle
<1> QED
  BY <1>1, <1>3, <1>4, <1>5, IssueKeepsCap

-----------------------------------------------------------------------------

\* Every reachable state satisfies IInv.
THEOREM Invariance == Spec => []IInv
<1>1. IInv /\ UNCHANGED vars => IInv'
  BY DEF vars, registryVars, bondVars, IInv, TypeOK, BondTypeOK, AgentConsented, ConsentInFlight,
         CapOfNeverRevoked, Vouched, RevokedIsRemembered, ExcludedWereRevoked, OwnersStay,
         At, Cred, Registered
<1>2. IInv /\ [Next]_vars => IInv'
  BY <1>1, ChainStep, AttestStep, CheckAttestationStep, CheckVaultStep, ReadRowsStep,
     ReadRevocationsStep, IssueStep, RefuseStep
  DEF Next
<1> QED
  BY Initially, <1>2, PTL DEF Spec

\* The register's and the handlers' variables keep their types.
THEOREM TypeCorrect == Spec => []TypeOK
<1>1. IInv => TypeOK
  BY DEF IInv
<1> QED
  BY <1>1, Invariance, PTL

\* Agent first: every registered agent consented.
THEOREM Consented == Spec => []AgentConsented
<1>1. IInv => AgentConsented
  BY DEF IInv
<1> QED
  BY <1>1, Invariance, PTL

\* The cap the serializable transaction keeps, whatever races it.
THEOREM Capped == Spec => []CapOfNeverRevoked
<1>1. IInv => CapOfNeverRevoked
  BY DEF IInv
<1> QED
  BY <1>1, Invariance, PTL

\* Paired with the deployed vault, whose bindings are for good, the register
\* and the chain never disagree on who answers for a bonded agent.
THEOREM Agreement == ASSUME KeepsOperator PROVE Spec => []AuthoritiesAgree
<1>1. IInv => AuthoritiesAgree
  BY DEF IInv, OwnersStay, AuthoritiesAgree
<1> QED
  BY <1>1, Invariance, PTL

\* Rows are only replaced by newer credentials of their operator.
THEOREM Monotone == Spec => RegistrationMonotone
<1> DEFINE Newer == \A a \in Agent :
                      Registered(a) /\ rows'[a] # rows[a] =>
                        rows'[a].operator = rows[a].operator /\ rows'[a].nonce > rows[a].nonce
<1>1. IInv /\ [Next]_vars => [Newer]_vars
  <2> SUFFICES ASSUME IInv, Next PROVE Newer
    OBVIOUS
  <2>1. ASSUME NEW r \in Request, Issue(r) PROVE Newer
    <3>1. /\ rows'[Cred(r).agent].operator = Cred(r).operator
          /\ rows'[Cred(r).agent].nonce = Cred(r).nonce
          /\ \A b \in Agent \ {Cred(r).agent} : rows'[b] = rows[b]
      BY <2>1, IssueWrites
    <3> QED
      BY <2>1, <3>1 DEF Issue, Admits
  <2>2. CASE UNCHANGED rows
    BY <2>2
  <2> QED
    BY <2>1, <2>2
    DEF Next, ContractStep, Attest, CheckAttestation, CheckVault, ReadRows, ReadRevocations,
        Refuse, Continue
<1> QED
  BY <1>1, Invariance, PTL DEF Spec, RegistrationMonotone

-----------------------------------------------------------------------------

(***************************************************************************)
(* Each registration as one step.  Every handler's step before the last is *)
(* a consent or a stutter; the last is the registration, whose conditions  *)
(* the invariant carries there from the awaits that established them.      *)
(***************************************************************************)

\* The instance's cardinality is the cardinality.
LEMMA SameCardinality ==
  ASSUME NEW S
  PROVE  Register!Cardinality(S) = Cardinality(S)
BY DEF Cardinality, Register!Cardinality

\* The contracts move in both alike.
LEMMA ChainRefines ==
  ASSUME ContractStep
  PROVE  Register!ChainMoves
BY DEF ContractStep, BondNext, Bond, Release, SetRevoked, Register!ChainMoves,
    Register!BondNext, Register!Bond, Register!Release, Register!SetRevoked

\* A first check lets an agent in that consented before, or consents now.
LEMMA CheckAttestationRefines ==
  ASSUME NEW r \in Request, NEW cred \in Credential, CheckAttestation(r, cred)
  PROVE  Register!Consent(cred.agent) \/ UNCHANGED Register!registerVars
<1>1. UNCHANGED <<bondVars, attested, rows, everRevoked>>
  BY DEF CheckAttestation, Continue
<1>2. CASE UNCHANGED seenProofs
  BY <1>1, <1>2 DEF Register!registerVars, Register!bondVars, bondVars
<1>3. CASE seenProofs' = seenProofs \cup {cred.agent}
  <2>1. (attested \cup seenProofs)' = (attested \cup seenProofs) \cup {cred.agent}
    BY <1>1, <1>3
  <2> QED
    BY <1>1, <2>1 DEF Register!Consent, Register!bondVars, bondVars
<1> QED
  BY <1>2, <1>3 DEF CheckAttestation

\* What the transaction leaves out of the count was ever revoked, so the agents
\* that hold a place are among those it counted.
LEMMA PlacesAreCounted ==
  ASSUME IInv, NEW r \in Request, Issue(r)
  PROVE  Register!Cardinality(Register!PlacesTaken(Cred(r).humanRoot, Cred(r).agent))
           < MaxPerHuman
<1> DEFINE c == Cred(r)
           counted == RowsOf(c.humanRoot, c.agent) \ request[r].excluded
           places == Register!PlacesTaken(c.humanRoot, c.agent)
<1>1. request[r].excluded \subseteq everRevoked
  BY IssueWrites DEF IInv, ExcludedWereRevoked
<1>2. places \subseteq counted
  BY <1>1 DEF Register!PlacesTaken, RowsOf, Registered, NoRow, Register!NoRow
<1>3. counted \subseteq Agent /\ Cardinality(counted) < MaxPerHuman
  BY DEF RowsOf, Issue, Admits
<1> HIDE DEF counted, places
<1>4. IsFiniteSet(counted)
  BY <1>3, FS_Subset, RegistryAssumption
<1>5. IsFiniteSet(places) /\ Cardinality(places) <= Cardinality(counted)
  BY <1>2, <1>4, FS_Subset
<1>6. Cardinality(places) \in Nat /\ Cardinality(counted) \in Nat
  BY <1>4, <1>5, FS_CardinalityType
<1> QED
  BY <1>3, <1>5, <1>6, SameCardinality, RegistryAssumption DEF places

\* The transaction is the registration.
LEMMA IssueRefines ==
  ASSUME IInv, NEW r \in Request, Issue(r)
  PROVE  \E row \in Row : Register!Register(Cred(r).agent, row)
<1> DEFINE c == Cred(r)
           row == [operator |-> c.operator, humanRoot |-> c.humanRoot, nonce |-> c.nonce]
<1>1. /\ c \in Credential /\ ~At(r, "idle") /\ request[r].stage = "issue"
      /\ UNCHANGED <<bondVars, attested, seenProofs, everRevoked>>
  BY IssueWrites
<1>2. row \in Row /\ c.agent \in Agent
  BY <1>1 DEF Credential, Row
<1>3. c.agent \in attested \cup seenProofs
  BY <1>1 DEF IInv, ConsentInFlight
<1>4. /\ rows' = [rows EXCEPT ![c.agent] = row]
      /\ Registered(c.agent) =>
           rows[c.agent].operator = c.operator /\ c.nonce > rows[c.agent].nonce
  BY DEF Issue, Admits
<1>5. rows[c.agent] # NoRow =>
        rows[c.agent].operator = row.operator /\ rows[c.agent].nonce < row.nonce
  <2> SUFFICES ASSUME rows[c.agent] # NoRow
               PROVE  rows[c.agent].operator = c.operator /\ rows[c.agent].nonce < c.nonce
    OBVIOUS
  <2>1. rows[c.agent] \in Row
    BY <1>2 DEF IInv, TypeOK
  <2>2. rows[c.agent].nonce \in Int /\ c.nonce \in Int
    BY <1>1, <2>1, RegistryAssumption DEF Row, Credential
  <2> QED
    BY <1>4, <2>2 DEF Registered
<1>6. KeepsOperator => operator[c.agent] = row.operator
  BY <1>1 DEF IInv, OwnersStay
<1>7. Register!Cardinality(Register!PlacesTaken(row.humanRoot, c.agent)) < MaxPerHuman
  BY PlacesAreCounted
<1>8. UNCHANGED <<Register!bondVars, attested \cup seenProofs, everRevoked>>
  BY <1>1 DEF bondVars, Register!bondVars
<1>9. Register!Register(c.agent, row)
  <2> HIDE DEF c, row
  <2> QED
    BY <1>3, <1>4, <1>5, <1>6, <1>7, <1>8 DEF Register!Register, NoRow, Register!NoRow
<1> QED
  BY <1>2, <1>9

\* Every step of the register is one of the abstract register, or none.
LEMMA StepRefines ==
  ASSUME IInv, Next
  PROVE  [Register!RegisterNext]_(Register!registerVars)
<1>1. Row = Register!Row
  BY DEF Row, Register!Row
<1>2. ASSUME NEW a \in Agent, Attest(a)
      PROVE  Register!Consent(a)
  BY <1>2 DEF Attest, Register!Consent, Register!bondVars, bondVars
<1>3. ASSUME NEW r \in Request, NEW cred \in Credential, CheckAttestation(r, cred)
      PROVE  Register!RegisterNext \/ UNCHANGED Register!registerVars
  <2>1. cred.agent \in Agent
    BY DEF Credential
  <2> QED
    BY <1>3, <2>1, CheckAttestationRefines DEF Register!RegisterNext
<1>4. ASSUME NEW r \in Request, Issue(r)
      PROVE  Register!RegisterNext
  <2>1. Cred(r).agent \in Agent
    BY <1>4, IssueWrites DEF Credential
  <2> QED
    BY <1>1, <1>4, <2>1, IssueRefines DEF Register!RegisterNext
<1>5. CASE UNCHANGED <<bondVars, attested, seenProofs, rows, everRevoked>>
  BY <1>5 DEF Register!registerVars, Register!bondVars, bondVars
<1> QED
  BY <1>2, <1>3, <1>4, <1>5, ChainRefines
  DEF Next, CheckVault, ReadRows, ReadRevocations, Refuse, Continue, Register!RegisterNext

\* The handlers, however many run and however they interleave with each other
\* and with the chain, implement the register that does it all in one step.
THEOREM Refinement == Spec => ImplementsRegister
<1>1. Init => Register!RegisterInit
  BY DEF Init, BondInit, NoRow, Register!RegisterInit, Register!BondInit, Register!NoRow
<1>2. IInv /\ [Next]_vars => [Register!RegisterNext]_(Register!registerVars)
  <2>1. CASE UNCHANGED vars
    BY <2>1 DEF vars, registryVars, bondVars, Register!registerVars, Register!bondVars
  <2> QED
    BY <2>1, StepRefines
<1> QED
  BY <1>1, <1>2, Invariance, PTL DEF Spec, ImplementsRegister, Register!RegisterSpec

-----------------------------------------------------------------------------

(***************************************************************************)
(* What is left of the agreement over a vault that drops bindings: the     *)
(* registered operator need not own the bond any more, but it did.  Who    *)
(* ever owned a bond is a history variable, which only this argument reads.*)
(***************************************************************************)
VARIABLE everOwned

Owning == {<<a, operator[a]>> : a \in {b \in Agent : bonded[b]}}

RememberOwners == everOwned' = everOwned \cup Owning'

HSpec == Init /\ everOwned = {} /\ [][Next /\ RememberOwners]_<<vars, everOwned>>

\* Nobody is registered as the operator of an agent without having bonded it.
OperatorBondedOnce ==
  \A a \in Agent : Registered(a) => <<a, rows[a].operator>> \in everOwned

\* A handler past the vault has seen the bond.
BondSeen ==
  \A r \in Request :
    request[r].stage \in {"rows", "revocations", "issue"} =>
      <<Cred(r).agent, Cred(r).operator>> \in everOwned

OwnersInv == Owning \subseteq everOwned /\ BondSeen /\ OperatorBondedOnce

\* A handler that passes the vault finds the owner there.
LEMMA VaultShowsOwner ==
  ASSUME TypeOK, Owning \subseteq everOwned, NEW r \in Request, CheckVault(r)
  PROVE  <<Cred(r).agent, Cred(r).operator>> \in everOwned
<1>1. Cred(r).agent \in Agent /\ bonded[Cred(r).agent]
  BY NotIdle DEF CheckVault, At, Credential
<1>2. operator[Cred(r).agent] = Cred(r).operator
  BY DEF CheckVault
<1> QED
  BY <1>1, <1>2 DEF Owning

\* Handlers that go on, without a row, to where a bond was seen.
LEMMA ContinueSeesBond ==
  ASSUME TypeOK, BondSeen, OperatorBondedOnce, everOwned \subseteq everOwned',
         NEW r \in Request, NEW next, Continue(r, next),
         next.stage \in {"rows", "revocations", "issue"} =>
           <<next.cred.agent, next.cred.operator>> \in everOwned
  PROVE  BondSeen' /\ OperatorBondedOnce'
<1>1. \A q \in Request : request'[q] = IF q = r THEN next ELSE request[q]
  BY DEF Continue, TypeOK
<1>2. rows' = rows
  BY DEF Continue
<1> QED
  BY <1>1, <1>2 DEF BondSeen, OperatorBondedOnce, Cred, Registered

\* Each step, and the owners it adds to the history.
LEMMA OwnersKept ==
  ASSUME IInv, OwnersInv, Next, RememberOwners
  PROVE  OwnersInv'
<1> USE DEF OwnersInv
<1>1. Owning' \subseteq everOwned' /\ everOwned \subseteq everOwned' /\ TypeOK
  BY DEF RememberOwners, IInv
<1>2. CASE UNCHANGED <<rows, request>>
  BY <1>1, <1>2 DEF BondSeen, OperatorBondedOnce, Cred, Registered
<1>3. ASSUME NEW r \in Request, NEW cred \in Credential, CheckAttestation(r, cred)
      PROVE  OwnersInv'
  <2>1. Continue(r, [stage |-> "vault", cred |-> cred, candidates |-> {}, excluded |-> {}])
    BY <1>3 DEF CheckAttestation
  <2> QED
    BY <1>1, <2>1, ContinueSeesBond
<1>4. ASSUME NEW r \in Request, CheckVault(r)
      PROVE  OwnersInv'
  <2> DEFINE next == [request[r] EXCEPT !.stage = "rows"]
  <2>1. request[r] \in InFlight
    BY <1>1, <1>4, NotIdle DEF CheckVault, At
  <2>2. Continue(r, next) /\ next.cred = Cred(r)
    BY <1>4, <2>1 DEF CheckVault, InFlight, Cred
  <2> HIDE DEF next
  <2> QED
    BY <1>1, <1>4, <2>2, VaultShowsOwner, ContinueSeesBond
<1>5. ASSUME NEW r \in Request, ReadRows(r)
      PROVE  OwnersInv'
  <2> DEFINE next == [request[r] EXCEPT
                        !.stage = "revocations",
                        !.candidates = RowsOf(Cred(r).humanRoot, Cred(r).agent)]
  <2>1. request[r] \in InFlight /\ request[r].stage = "rows"
    BY <1>1, <1>5, NotIdle DEF ReadRows, At
  <2>2. Continue(r, next) /\ next.cred = Cred(r)
    BY <1>5, <2>1 DEF ReadRows, InFlight, Cred
  <2> HIDE DEF next
  <2> QED
    BY <1>1, <2>1, <2>2, ContinueSeesBond DEF BondSeen
<1>6. ASSUME NEW r \in Request, ReadRevocations(r)
      PROVE  OwnersInv'
  <2>1. request[r] \in InFlight /\ request[r].stage = "revocations"
    BY <1>1, <1>6, NotIdle DEF ReadRevocations, At
  <2>2. PICK answered \in SUBSET request[r].candidates :
          Continue(r, [request[r] EXCEPT !.stage = "issue", !.candidates = {},
                                         !.excluded = {b \in answered : revoked[b]}])
    BY <1>6 DEF ReadRevocations
  <2> DEFINE next == [request[r] EXCEPT !.stage = "issue", !.candidates = {},
                                        !.excluded = {b \in answered : revoked[b]}]
  <2>3. Continue(r, next) /\ next.cred = Cred(r)
    BY <2>1, <2>2 DEF InFlight, Cred
  <2> HIDE DEF next
  <2> QED
    BY <1>1, <2>1, <2>3, ContinueSeesBond DEF BondSeen
<1>7. ASSUME NEW r \in Request, Refuse(r)
      PROVE  OwnersInv'
  <2>1. Continue(r, Idle)
    BY <1>7 DEF Refuse
  <2> QED
    BY <1>1, <2>1, ContinueSeesBond DEF Idle
<1>8. ASSUME NEW r \in Request, Issue(r)
      PROVE  OwnersInv'
  <2>1. /\ request[r].stage = "issue"
        /\ rows'[Cred(r).agent].operator = Cred(r).operator
        /\ \A b \in Agent \ {Cred(r).agent} : rows'[b] = rows[b]
        /\ request' = [request EXCEPT ![r] = Idle]
    BY <1>8, IssueWrites
  <2>2. \A q \in Request : request'[q] = IF q = r THEN Idle ELSE request[q]
    BY <1>1, <2>1 DEF TypeOK
  <2>3. BondSeen'
    BY <1>1, <2>2 DEF BondSeen, Cred, Idle
  <2>4. OperatorBondedOnce'
    BY <1>1, <2>1 DEF BondSeen, OperatorBondedOnce, Registered
  <2> QED
    BY <1>1, <2>3, <2>4
<1> QED
  BY <1>2, <1>3, <1>4, <1>5, <1>6, <1>7, <1>8 DEF Next, ContractStep, Attest

\* Whichever vault the register is paired with, a registered operator is one
\* whose bond was behind the agent: the handler saw it, though it may be gone.
THEOREM OperatorsBonded == HSpec => []OperatorBondedOnce
<1>1. HSpec => Spec
  <2>1. Next /\ RememberOwners => [Next]_vars
    OBVIOUS
  <2>2. UNCHANGED <<vars, everOwned>> => [Next]_vars
    OBVIOUS
  <2> QED
    BY <2>1, <2>2, PTL DEF HSpec, Spec
<1>2. Init /\ everOwned = {} => OwnersInv
  BY DEF Init, BondInit, OwnersInv, Owning, BondSeen, OperatorBondedOnce, Registered, Idle
<1>3. IInv /\ OwnersInv /\ [Next /\ RememberOwners]_<<vars, everOwned>> => OwnersInv'
  <2>1. CASE UNCHANGED <<vars, everOwned>>
    BY <2>1 DEF vars, registryVars, bondVars, OwnersInv, Owning, BondSeen, OperatorBondedOnce,
         Cred, Registered
  <2> QED
    BY <2>1, OwnersKept
<1>4. OwnersInv => OperatorBondedOnce
  BY DEF OwnersInv
<1> QED
  BY <1>1, <1>2, <1>3, <1>4, Invariance, PTL DEF HSpec

=============================================================================
