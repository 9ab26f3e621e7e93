------------------------- MODULE CredentialRegister -------------------------
(***************************************************************************)
(* What POST /agent/issue promises: registering an agent is one step that  *)
(* looks at everything at the same moment.  The handler takes several      *)
(* awaits to do it, in which the chain moves and other requests run;       *)
(* AgentRegistry has those, and implements this specification.             *)
(***************************************************************************)
EXTENDS AgentBond, Integers, FiniteSets

CONSTANTS
  Human,          \* the face-verified humans
  MaxPerHuman,    \* MAX_AGENTS_PER_HUMAN
  MaxNonce,       \* bound: credential nonces are 0..MaxNonce
  KeepsOperator   \* TRUE: the vault never drops a binding

VARIABLES
  consented,  \* agents whose key consented to be registered
  rows,       \* the agent_credentials table, by agent
  exempt      \* agents the cap may leave out: those that were ever revoked

registerVars == <<bondVars, consented, rows, exempt>>

NoRow == [operator |-> NoAddress]
Row == [operator : Account, humanRoot : Human, nonce : 0..MaxNonce]

RegisterInit ==
  /\ BondInit
  /\ consented = {}
  /\ rows = [a \in Agent |-> NoRow]
  /\ exempt = {}

\* The contracts go their own way.
ChainMoves ==
  /\ BondNext
  /\ KeepsOperator =>
       \A a \in Agent : operator[a] # NoAddress => operator'[a] = operator[a]
  /\ exempt' = exempt \cup {a \in Agent : revoked'[a]}
  /\ UNCHANGED <<consented, rows>>

\* An agent consents, for good.
Consent(a) ==
  /\ consented' = consented \cup {a}
  /\ UNCHANGED <<bondVars, rows, exempt>>

\* The agents but a that hold a place of human h.
PlacesTaken(h, a) ==
  {b \in Agent \ (exempt \cup {a}) : rows[b] # NoRow /\ rows[b].humanRoot = h}

\* An agent that consented is registered, or registered again by the same
\* operator with a newer credential: the human has a place left for it, and
\* the operator is the one bound to it, if bindings are for good.
Register(a, row) ==
  /\ a \in consented
  /\ rows[a] # NoRow => rows[a].operator = row.operator /\ rows[a].nonce < row.nonce
  /\ KeepsOperator => operator[a] = row.operator
  /\ Cardinality(PlacesTaken(row.humanRoot, a)) < MaxPerHuman
  /\ rows' = [rows EXCEPT ![a] = row]
  /\ UNCHANGED <<bondVars, consented, exempt>>

RegisterNext ==
  \/ ChainMoves
  \/ \E a \in Agent :
       \/ Consent(a)
       \/ \E row \in Row : Register(a, row)

RegisterSpec == RegisterInit /\ [][RegisterNext]_registerVars

=============================================================================
