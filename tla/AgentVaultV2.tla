---------------------------- MODULE AgentVaultV2 ----------------------------
(***************************************************************************)
(* The vault with agent-consented operators, and the AgentRevocation       *)
(* pointed at it.  An agent names its operator, from its own account or by *)
(* a signed message anyone relays; a full exit clears binding and consent. *)
(***************************************************************************)
EXTENDS AgentRevocation, FiniteSets

CONSTANT MaxSignatures   \* bound: approval messages one agent signs

ASSUME SignaturesAssumption == MaxSignatures \in Nat

VARIABLES
  approvedOperatorOf,
  nonces,
  signed,     \* ApproveOperator messages the agents have signed, valid for ever
  relayed,    \* history: the messages approveOperatorFor has accepted
  consented   \* history: wallets the agent approved since its last full exit

consentVars == <<approvedOperatorOf, nonces, signed, relayed, consented>>
vars == <<ledgerVars, revokedAt, consentVars>>

\* The EIP-712 struct ApproveOperator.
Approval == [agent : Agent, operator : Account, nonce : Nat, deadline : Nat]

TypeOK ==
  /\ LedgerTypeOK
  /\ RevocationTypeOK
  /\ approvedOperatorOf \in [Agent -> Account \cup {NoAddress}]
  /\ nonces \in [Agent -> Nat]
  /\ signed \subseteq Approval
  /\ relayed \subseteq signed
  /\ consented \in [Agent -> SUBSET Account]

Init ==
  /\ LedgerInit
  /\ RevocationInit
  /\ approvedOperatorOf = [a \in Agent |-> NoAddress]
  /\ nonces = [a \in Agent |-> 0]
  /\ signed = {}
  /\ relayed = {}
  /\ consented = [a \in Agent |-> {}]

-----------------------------------------------------------------------------

\* Mutant: an approval rebinds an agent that is bound already.
ApproveRebinds(a, o) ==
  /\ approvedOperatorOf' = [approvedOperatorOf EXCEPT ![a] = o]
  /\ operatorOf' = [operatorOf EXCEPT ![a] = IF @ = NoAddress THEN @ ELSE o]
  /\ consented' = [consented EXCEPT ![a] = @ \cup {o}]
  /\ UNCHANGED <<now, balance, stakeOf, unstakeUnlockAt, bondedSince, revokedAt>>

\* _approve: the latest approval to reach the chain replaces any other.
Approve(a, o) ==
  /\ approvedOperatorOf' = [approvedOperatorOf EXCEPT ![a] = o]
  /\ consented' = [consented EXCEPT ![a] = @ \cup {o}]
  /\ UNCHANGED <<ledgerVars, revokedAt>>

\* The agent's own transaction; it consumes no nonce.
ApproveOperator(a, o) ==
  /\ Approve(a, o)
  /\ UNCHANGED <<nonces, signed, relayed>>

\* Off chain: the agent signs for the nonce it reads on chain.  It may sign
\* several messages for one nonce, and need never relay them.
SignApproval(a, o, deadline) ==
  /\ Cardinality({m \in signed : m.agent = a}) < MaxSignatures
  /\ signed' = signed \cup
       {[agent |-> a, operator |-> o, nonce |-> nonces[a], deadline |-> deadline]}
  /\ UNCHANGED <<ledgerVars, revokedAt, approvedOperatorOf, nonces, relayed, consented>>

\* Mutant: the nonce is compared but not spent.
ApproveOperatorForUnspent(m) ==
  /\ now <= m.deadline
  /\ m.nonce = nonces[m.agent]
  /\ Approve(m.agent, m.operator)
  /\ relayed' = relayed \cup {m}
  /\ UNCHANGED <<nonces, signed>>

\* Anyone relays a signed message: in time, for the agent's current nonce.
ApproveOperatorFor(m) ==
  /\ now <= m.deadline
  /\ m.nonce = nonces[m.agent]
  /\ nonces' = [nonces EXCEPT ![m.agent] = @ + 1]
  /\ Approve(m.agent, m.operator)
  /\ relayed' = relayed \cup {m}
  /\ UNCHANGED signed

\* _ensureOperator: the first stake needs the agent's consent.
Stake(a, sender, amount) ==
  /\ \/ operatorOf[a] = NoAddress /\ approvedOperatorOf[a] = sender
     \/ operatorOf[a] = sender
  /\ Deposit(a, sender, amount)
  /\ UNCHANGED <<revokedAt, consentVars>>

\* Mutant: a partial exit clears the binding as well.
WithdrawStakeAlwaysClears(a, sender, amount) ==
  /\ PayOut(a, sender, amount)
  /\ operatorOf' = [operatorOf EXCEPT ![a] = NoAddress]
  /\ approvedOperatorOf' = [approvedOperatorOf EXCEPT ![a] = NoAddress]
  /\ consented' = [consented EXCEPT ![a] = {}]
  /\ UNCHANGED <<revokedAt, nonces, signed, relayed>>

\* Mutant: a full exit forgets to clear the approval.
WithdrawStakeKeepsApproval(a, sender, amount) ==
  /\ PayOut(a, sender, amount)
  /\ IF stakeOf'[a] = 0
     THEN /\ operatorOf' = [operatorOf EXCEPT ![a] = NoAddress]
          /\ consented' = [consented EXCEPT ![a] = {}]
     ELSE UNCHANGED <<operatorOf, consented>>
  /\ UNCHANGED <<approvedOperatorOf, revokedAt, nonces, signed, relayed>>

\* A full exit clears the binding and the consent, a partial one neither.
WithdrawStake(a, sender, amount) ==
  /\ PayOut(a, sender, amount)
  /\ IF stakeOf'[a] = 0
     THEN /\ operatorOf' = [operatorOf EXCEPT ![a] = NoAddress]
          /\ approvedOperatorOf' = [approvedOperatorOf EXCEPT ![a] = NoAddress]
          /\ consented' = [consented EXCEPT ![a] = {}]
     ELSE UNCHANGED <<operatorOf, approvedOperatorOf, consented>>
  /\ UNCHANGED <<revokedAt, nonces, signed, relayed>>

Next ==
  \/ Tick /\ UNCHANGED <<revokedAt, consentVars>>
  \/ \E m \in signed : ApproveOperatorFor(m)
  \/ \E a \in Agent, s \in Account :
       \/ ApproveOperator(a, s)
       \/ \E deadline \in now..MaxTime : SignApproval(a, s, deadline)
       \/ \E amount \in 1..Endowment : Stake(a, s, amount)
       \/ RequestUnstake(a, s) /\ UNCHANGED <<revokedAt, consentVars>>
       \/ \E amount \in 1..stakeOf[a] : WithdrawStake(a, s, amount)
       \/ Revoke(a, s) /\ UNCHANGED consentVars
       \/ Reinstate(a, s) /\ UNCHANGED consentVars

Spec == Init /\ [][Next]_vars

-----------------------------------------------------------------------------

\* The contracts as their readers see them.
Bond == INSTANCE AgentBond WITH
          operator <- operatorOf,
          bonded   <- [a \in Agent |-> stakeOf[a] # 0],
          revoked  <- [a \in Agent |-> revokedAt[a] # 0]

\* V2 keeps the same promise to the readers of the contracts as V1.
ImplementsBond == Bond!BondSpec

\* Nothing about an agent address is squattable or permanent: a binding is
\* always backed by a bond, and the bound wallet was approved by the agent
\* after the previous operator left.
BindingIsEarned ==
  \A a \in Agent :
    operatorOf[a] # NoAddress => stakeOf[a] # 0 /\ operatorOf[a] \in consented[a]

\* Signed approvals are single-use: a message is accepted only if no message
\* signed for the same nonce, this one included, was accepted before.
ApprovalsSingleUse ==
  [][\A m \in signed :
       ApproveOperatorFor(m) =>
         \A n \in relayed : n.agent = m.agent => n.nonce # m.nonce]_vars

\* An unstake can only be pending for a placed bond, and unlocks a full
\* cooldown after that bond was placed.
PendingUnstakeSound ==
  \A a \in Agent :
    unstakeUnlockAt[a] # 0 =>
      stakeOf[a] # 0 /\ unstakeUnlockAt[a] >= bondedSince[a] + Cooldown

FundsFollowOperatorStep == [][FundsFollowOperator]_vars

\* V2's exit goes through a cooldown that began after the bond was placed.
LockedForCooldownStep == [][LockedForCooldown]_vars

=============================================================================
