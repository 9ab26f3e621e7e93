----------------------------- MODULE AgentBond -----------------------------
(***************************************************************************)
(* What the on-chain contracts promise their readers: the API, the SDK's   *)
(* verifyAgentId and the explorer see an agent only through its operator,  *)
(* whether a bond stands behind it, and whether it is revoked.  Amounts,   *)
(* time, cooldowns and consent do not show here.  Both vaults              *)
(* (AgentVault, AgentVaultV2), each paired with an AgentRevocation,        *)
(* implement this specification.                                           *)
(***************************************************************************)

CONSTANTS
  Account,    \* the wallets that may operate an agent
  Agent,      \* the agents' addresses
  NoAddress   \* address(0)

VARIABLES
  operator,   \* operator[a]: the wallet bound to a, or NoAddress
  bonded,     \* bonded[a]: a bond is behind a, and so at least the (positive) minimum
  revoked     \* revoked[a]: a's kill switch is on

bondVars == <<operator, bonded, revoked>>

BondTypeOK ==
  /\ operator \in [Agent -> Account \cup {NoAddress}]
  /\ bonded \in [Agent -> BOOLEAN]
  /\ revoked \in [Agent -> BOOLEAN]

BondInit ==
  /\ operator = [a \in Agent |-> NoAddress]
  /\ bonded = [a \in Agent |-> FALSE]
  /\ revoked = [a \in Agent |-> FALSE]

\* A bond is placed by the wallet already bound, or by a first one.
Bond(a, o) ==
  /\ ~bonded[a]
  /\ operator[a] \in {NoAddress, o}
  /\ operator' = [operator EXCEPT ![a] = o]
  /\ bonded' = [bonded EXCEPT ![a] = TRUE]
  /\ UNCHANGED revoked

\* The whole bond leaves; the binding stays (V1) or is cleared (V2).
Release(a) ==
  /\ bonded[a]
  /\ bonded' = [bonded EXCEPT ![a] = FALSE]
  /\ \/ UNCHANGED operator
     \/ operator' = [operator EXCEPT ![a] = NoAddress]
  /\ UNCHANGED revoked

\* Only a bound agent can be revoked or reinstated, bonded or not.
SetRevoked(a, flag) ==
  /\ operator[a] # NoAddress
  /\ revoked' = [revoked EXCEPT ![a] = flag]
  /\ UNCHANGED <<operator, bonded>>

BondNext ==
  \E a \in Agent :
    \/ \E o \in Account : Bond(a, o)
    \/ Release(a)
    \/ \E flag \in BOOLEAN : SetRevoked(a, flag)

BondSpec == BondInit /\ [][BondNext]_bondVars

=============================================================================
