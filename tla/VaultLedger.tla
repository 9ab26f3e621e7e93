---------------------------- MODULE VaultLedger ----------------------------
(***************************************************************************)
(* The state and the code that AgentVault and AgentVaultV2 have in common: *)
(* the per-agent position (operator, bonded amount, unlock time), the G$   *)
(* token as the vault uses it, the clock, and the bodies of stake,         *)
(* requestUnstake and withdrawStake.  A transaction is one step; a revert  *)
(* leaves the state alone and is the absence of the step.                  *)
(***************************************************************************)
EXTENDS Integers, FiniteSetsExt

CONSTANTS
  Account,    \* wallets that send transactions
  Agent,      \* agent addresses
  Vault,      \* the vault's own token account
  NoAddress,  \* address(0)
  MinStake,   \* minStake, immutable
  Cooldown,   \* UNSTAKE_COOLDOWN
  Endowment,  \* G$ each wallet starts with
  MaxTime     \* bound: the last block timestamp explored

ASSUME LedgerAssumption ==
  /\ NoAddress \notin Account
  /\ Vault \notin Account
  /\ MinStake \in Nat
  /\ Cooldown \in Nat \ {0}
  /\ Endowment \in Nat
  /\ MaxTime \in Nat

\* Agents are addresses, and of these there are finitely many.
ASSUME FinitelyManyAgents == IsFiniteSet(Agent)

VARIABLES
  now,              \* block.timestamp, at least 1: 0 is the "none" of the mappings
  balance,          \* token.balanceOf
  operatorOf,
  stakeOf,
  unstakeUnlockAt,  \* 0 = no unstake requested
  bondedSince       \* history: when stakeOf[a] last rose from 0, 0 while it is 0

ledgerVars ==
  <<now, balance, operatorOf, stakeOf, unstakeUnlockAt, bondedSince>>

LedgerTypeOK ==
  /\ now \in Nat \ {0}
  /\ balance \in [Account \cup {Vault} -> Nat]
  /\ operatorOf \in [Agent -> Account \cup {NoAddress}]
  /\ stakeOf \in [Agent -> Nat]
  /\ unstakeUnlockAt \in [Agent -> Nat]
  /\ bondedSince \in [Agent -> Nat]

LedgerInit ==
  /\ now = 1
  /\ balance = [x \in Account \cup {Vault} |-> IF x = Vault THEN 0 ELSE Endowment]
  /\ operatorOf = [a \in Agent |-> NoAddress]
  /\ stakeOf = [a \in Agent |-> 0]
  /\ unstakeUnlockAt = [a \in Agent |-> 0]
  /\ bondedSince = [a \in Agent |-> 0]

-----------------------------------------------------------------------------

\* A later block.
Tick ==
  /\ now < MaxTime
  /\ now' = now + 1
  /\ UNCHANGED <<balance, operatorOf, stakeOf, unstakeUnlockAt, bondedSince>>

\* Mutant: a token, or a vault, that does not check the balance.
TransferUnchecked(from, to, amount) ==
  balance' = [balance EXCEPT ![from] = @ - amount, ![to] = @ + amount]

\* Mutant: the token keeps a fee of what the vault pulls, the books do not.
TransferPullsLess(from, to, amount) ==
  /\ amount <= balance[from]
  /\ balance' = [balance EXCEPT ![from] = @ - amount,
                                ![to] = IF to = Vault THEN @ + amount - 1 ELSE @ + amount]

\* token.transferFrom / token.transfer: G$ moves, or the transaction reverts.
Transfer(from, to, amount) ==
  /\ amount <= balance[from]
  /\ balance' = [balance EXCEPT ![from] = @ - amount, ![to] = @ + amount]

\* stake after _ensureOperator has bound a to sender.
Deposit(a, sender, amount) ==
  /\ amount # 0
  /\ stakeOf[a] + amount >= MinStake
  /\ operatorOf' = [operatorOf EXCEPT ![a] = sender]
  /\ stakeOf' = [stakeOf EXCEPT ![a] = @ + amount]
  /\ Transfer(sender, Vault, amount)
  /\ bondedSince' = [bondedSince EXCEPT ![a] = IF stakeOf[a] = 0 THEN now ELSE @]
  /\ UNCHANGED <<now, unstakeUnlockAt>>

\* The operator starts the cooldown, or starts it again.
RequestUnstake(a, sender) ==
  /\ operatorOf[a] = sender
  /\ unstakeUnlockAt' = [unstakeUnlockAt EXCEPT ![a] = now + Cooldown]
  /\ UNCHANGED <<now, balance, operatorOf, stakeOf, bondedSince>>

\* A withdrawal's effects, for the mutants of PayOut that drop one line each.
Paid(a, sender, amount) ==
  /\ amount # 0
  /\ amount <= stakeOf[a]
  /\ stakeOf' = [stakeOf EXCEPT ![a] = @ - amount]
  /\ Transfer(Vault, sender, amount)
  /\ bondedSince' = [bondedSince EXCEPT ![a] = IF stakeOf[a] = amount THEN 0 ELSE @]
  /\ UNCHANGED now

Unlocked(a) == unstakeUnlockAt[a] # 0 /\ now >= unstakeUnlockAt[a]
NoDust(a, amount) == stakeOf[a] = amount \/ stakeOf[a] - amount >= MinStake

\* Mutant: the remainder may be dust.
PayOutLeavesDust(a, sender, amount) ==
  /\ operatorOf[a] = sender /\ Unlocked(a) /\ Paid(a, sender, amount)
  /\ unstakeUnlockAt' = [unstakeUnlockAt EXCEPT ![a] = 0]

\* Mutant: anybody withdraws.
PayOutToAnyone(a, sender, amount) ==
  /\ Unlocked(a) /\ NoDust(a, amount) /\ Paid(a, sender, amount)
  /\ unstakeUnlockAt' = [unstakeUnlockAt EXCEPT ![a] = 0]

\* Mutant: the request survives the withdrawal.
PayOutKeepsRequest(a, sender, amount) ==
  /\ operatorOf[a] = sender /\ Unlocked(a) /\ NoDust(a, amount) /\ Paid(a, sender, amount)
  /\ UNCHANGED unstakeUnlockAt

\* Mutant: no request is needed, 0 passing for a time long past.
PayOutUnrequested(a, sender, amount) ==
  /\ operatorOf[a] = sender /\ now >= unstakeUnlockAt[a]
  /\ NoDust(a, amount) /\ Paid(a, sender, amount)
  /\ unstakeUnlockAt' = [unstakeUnlockAt EXCEPT ![a] = 0]

\* withdrawStake but for what becomes of the operator binding.
PayOut(a, sender, amount) ==
  LET remaining == stakeOf[a] - amount IN
  /\ operatorOf[a] = sender
  /\ amount # 0
  /\ unstakeUnlockAt[a] # 0
  /\ now >= unstakeUnlockAt[a]
  /\ amount <= stakeOf[a]
  /\ remaining = 0 \/ remaining >= MinStake
  /\ stakeOf' = [stakeOf EXCEPT ![a] = remaining]
  /\ unstakeUnlockAt' = [unstakeUnlockAt EXCEPT ![a] = 0]
  /\ Transfer(Vault, sender, amount)
  /\ bondedSince' = [bondedSince EXCEPT ![a] = IF remaining = 0 THEN 0 ELSE @]
  /\ UNCHANGED now

-----------------------------------------------------------------------------

\* Position: whatever sequence of calls was made, G$ behind an agent has an
\* operator to return to and is never dust below the minimum (the checks of
\* stake and withdrawStake together keep it so, neither alone does).
PositionSound ==
  \A a \in Agent :
    stakeOf[a] # 0 => operatorOf[a] # NoAddress /\ stakeOf[a] >= MinStake

\* Non-custodial: one step moves G$ only between the vault and the operator
\* of one agent, by exactly what that agent's bond grows or shrinks.
FundsFollowOperator ==
  balance' # balance =>
    \E a \in Agent, o \in Account :
      /\ o \in {operatorOf[a], operatorOf'[a]}
      /\ stakeOf'[a] # stakeOf[a]
      /\ balance' = [balance EXCEPT ![o] = @ + stakeOf[a] - stakeOf'[a],
                                    ![Vault] = @ + stakeOf'[a] - stakeOf[a]]
      /\ \A b \in Agent \ {a} : stakeOf'[b] = stakeOf[b]

\* What is bonded behind a wallet's agents.
Bonded(x) ==
  MapThenSumSet(LAMBDA a : stakeOf[a], {a \in Agent : operatorOf[a] = x})

\* Always refundable: what a wallet holds and what is bonded behind its agents
\* together stay what it started with, so no sequence of stakes, withdrawals
\* and changes of operator moves one wallet's G$ to another or strands it.
Conserved == \A x \in Account : balance[x] + Bonded(x) = Endowment

\* Solvent: the vault holds the bonds on its books, whoever placed them and in
\* whatever order they came and went; it credits the amount it asked for.  (G$
\* sent to it by other means, which is not modelled, only adds to that.)
Solvent == balance[Vault] = MapThenSumSet(LAMBDA a : stakeOf[a], Agent)

\* So no withdrawal that withdrawStake lets through can fail in _push.
Refundable == \A a \in Agent : stakeOf[a] <= balance[Vault]

\* A bond is not withdrawn, whole or in part, sooner than one cooldown after
\* it was placed: "3-day cooldown".
LockedForCooldown ==
  \A a \in Agent :
    stakeOf'[a] < stakeOf[a] => now >= bondedSince[a] + Cooldown

=============================================================================
