----------------------------- MODULE AgentVault -----------------------------
(***************************************************************************)
(* The deployed vault and the AgentRevocation pointed at it.  The first    *)
(* wallet that stakes for an agent is its operator for good.               *)
(***************************************************************************)
EXTENDS AgentRevocation

vars == <<ledgerVars, revokedAt>>

TypeOK == LedgerTypeOK /\ RevocationTypeOK

Init == LedgerInit /\ RevocationInit

-----------------------------------------------------------------------------

\* Mutant: a later staker takes the agent over.
StakeTakesOver(a, sender, amount) ==
  /\ Deposit(a, sender, amount)
  /\ UNCHANGED revokedAt

\* _ensureOperator: the first caller claims the agent, others are refused.
Stake(a, sender, amount) ==
  /\ operatorOf[a] \in {NoAddress, sender}
  /\ Deposit(a, sender, amount)
  /\ UNCHANGED revokedAt

\* The binding outlives the bond.
WithdrawStake(a, sender, amount) ==
  /\ PayOut(a, sender, amount)
  /\ UNCHANGED <<operatorOf, revokedAt>>

Next ==
  \/ Tick /\ UNCHANGED revokedAt
  \/ \E a \in Agent, s \in Account :
       \/ \E amount \in 1..Endowment : Stake(a, s, amount)
       \/ RequestUnstake(a, s) /\ UNCHANGED revokedAt
       \/ \E amount \in 1..stakeOf[a] : WithdrawStake(a, s, amount)
       \/ Revoke(a, s)
       \/ Reinstate(a, s)

Spec == Init /\ [][Next]_vars

-----------------------------------------------------------------------------

\* The contracts as their readers see them.
Bond == INSTANCE AgentBond WITH
          operator <- operatorOf,
          bonded   <- [a \in Agent |-> stakeOf[a] # 0],
          revoked  <- [a \in Agent |-> revokedAt[a] # 0]

\* The vault and its revocation registry keep the promise AgentBond states: a
\* bond is placed by the bound wallet or a first one, the operator never
\* changes hands, only a bound agent's switch moves.
ImplementsBond == Bond!BondSpec

\* An operator, once bound, is the operator for ever (operatorOf is only
\* assigned in _ensureOperator, from zero): so an agent is never left with a
\* revocation or a bond that somebody else took over.
OperatorForGood ==
  [][\A a \in Agent :
       operatorOf[a] # NoAddress => operatorOf'[a] = operatorOf[a]]_vars

FundsFollowOperatorStep == [][FundsFollowOperator]_vars

\* "in via `stake`, out via `withdrawStake` after a cooldown" (AgentVault.sol:15).
LockedForCooldownStep == [][LockedForCooldown]_vars

=============================================================================
