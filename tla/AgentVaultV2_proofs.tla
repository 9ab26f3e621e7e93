------------------------- MODULE AgentVaultV2_proofs -------------------------
(***************************************************************************)
(* The consented vault, for all values of the constants.  Its properties   *)
(* are inductive only together, and with three facts the code relies on    *)
(* without stating them: an approval still in force is one of the consents *)
(* since the last exit, accepted messages are for nonces already spent,    *)
(* and no bond was placed in the future.                                   *)
(***************************************************************************)
EXTENDS AgentVaultV2, TLAPS

-----------------------------------------------------------------------------

(***************************************************************************)
(* What the ledger's calls do is proved beside the deployed vault; the two *)
(* vaults have the ledger in common.                                       *)
(***************************************************************************)
V1 == INSTANCE AgentVault_proofs

\* The ledger of the one is the ledger of the other.
LEMMA SameLedger ==
  /\ V1!LedgerAssumption /\ V1!FinitelyManyAgents
  /\ V1!ledgerVars = ledgerVars /\ V1!ledgerVars' = ledgerVars'
  /\ V1!LedgerInit <=> LedgerInit
  /\ V1!LedgerTypeOK <=> LedgerTypeOK
  /\ V1!LedgerTypeOK' <=> LedgerTypeOK'
  /\ V1!PositionSound <=> PositionSound
  /\ V1!PositionSound' <=> PositionSound'
  /\ V1!FundsFollowOperator <=> FundsFollowOperator
  /\ V1!Tick <=> Tick
  /\ \A a, s : V1!RequestUnstake(a, s) <=> RequestUnstake(a, s)
  /\ \A a, s, n : V1!Deposit(a, s, n) <=> Deposit(a, s, n)
  /\ \A a, s, n : V1!PayOut(a, s, n) <=> PayOut(a, s, n)
<1>1. V1!LedgerAssumption
  BY LedgerAssumption DEF V1!LedgerAssumption
<1>2. V1!FinitelyManyAgents
  BY FinitelyManyAgents DEF V1!FinitelyManyAgents, IsFiniteSet, V1!IsFiniteSet
<1>3. /\ V1!ledgerVars = ledgerVars /\ V1!ledgerVars' = ledgerVars'
      /\ V1!LedgerInit <=> LedgerInit
      /\ V1!LedgerTypeOK <=> LedgerTypeOK
      /\ V1!LedgerTypeOK' <=> LedgerTypeOK'
  BY DEF ledgerVars, V1!ledgerVars, LedgerInit, V1!LedgerInit, LedgerTypeOK, V1!LedgerTypeOK
<1>4. /\ V1!PositionSound <=> PositionSound
      /\ V1!PositionSound' <=> PositionSound'
      /\ V1!FundsFollowOperator <=> FundsFollowOperator
  BY DEF PositionSound, V1!PositionSound, FundsFollowOperator, V1!FundsFollowOperator
<1>5. /\ V1!Tick <=> Tick
      /\ \A a, s : V1!RequestUnstake(a, s) <=> RequestUnstake(a, s)
  BY DEF Tick, V1!Tick, RequestUnstake, V1!RequestUnstake
<1>6. \A a, s, n : V1!Deposit(a, s, n) <=> Deposit(a, s, n)
  BY DEF Deposit, V1!Deposit, Transfer, V1!Transfer
<1>7. \A a, s, n : V1!PayOut(a, s, n) <=> PayOut(a, s, n)
  BY DEF PayOut, V1!PayOut, Transfer, V1!Transfer
<1> QED
  BY <1>1, <1>2, <1>3, <1>4, <1>5, <1>6, <1>7

\* And so is the property that its G$ is conserved.
LEMMA SameConserved ==
  /\ V1!Conserved <=> Conserved
  /\ V1!Conserved' <=> Conserved'
BY DEF Conserved, V1!Conserved, Bonded, V1!Bonded, MapThenSumSet, V1!MapThenSumSet,
    MapThenFoldSet, V1!MapThenFoldSet

\* And so are the two about what the vault holds.
LEMMA SameSolvent ==
  /\ V1!Solvent <=> Solvent
  /\ V1!Solvent' <=> Solvent'
  /\ V1!Refundable <=> Refundable
BY DEF Solvent, V1!Solvent, Refundable, V1!Refundable, MapThenSumSet, V1!MapThenSumSet,
    MapThenFoldSet, V1!MapThenFoldSet

\* The ledger's initial state is well typed, sound and conserved.
LEMMA LedgerInitially ==
  ASSUME LedgerInit
  PROVE  LedgerTypeOK /\ PositionSound
BY V1!LedgerInitially, SameLedger

\* A clock tick keeps types and positions.
LEMMA TickKeeps ==
  ASSUME LedgerTypeOK, PositionSound, Tick
  PROVE  LedgerTypeOK' /\ PositionSound'
BY V1!TickKeeps, SameLedger

\* A stake keeps types and positions, and raises the bond of its agent only.
LEMMA DepositKeeps ==
  ASSUME LedgerTypeOK, PositionSound,
         NEW a \in Agent, NEW sender \in Account, NEW amount \in 1..Endowment,
         Deposit(a, sender, amount)
  PROVE  /\ LedgerTypeOK'
         /\ PositionSound'
         /\ stakeOf'[a] = stakeOf[a] + amount
         /\ stakeOf'[a] # 0
         /\ FundsFollowOperator
BY V1!DepositKeeps, SameLedger

\* A request to unstake keeps types and positions.
LEMMA RequestKeeps ==
  ASSUME LedgerTypeOK, PositionSound,
         NEW a \in Agent, NEW sender \in Account, RequestUnstake(a, sender)
  PROVE  LedgerTypeOK' /\ PositionSound'
BY V1!RequestKeeps, SameLedger

\* A withdrawal keeps them, if the binding is not lost while a bond remains.
LEMMA PayOutKeeps ==
  ASSUME LedgerTypeOK, PositionSound,
         NEW a \in Agent, NEW sender \in Account, NEW amount \in 1..stakeOf[a],
         PayOut(a, sender, amount),
         operatorOf' \in [Agent -> Account \cup {NoAddress}],
         \A b \in Agent :
           operatorOf'[b] = operatorOf[b] \/ (b = a /\ stakeOf'[b] = 0)
  PROVE  /\ LedgerTypeOK'
         /\ PositionSound'
         /\ stakeOf[a] # 0
         /\ stakeOf'[a] = stakeOf[a] - amount
         /\ FundsFollowOperator
BY V1!PayOutKeeps, SameLedger

\* What touches nothing of the ledger keeps it.
LEMMA LedgerUnchanged ==
  ASSUME LedgerTypeOK, PositionSound, UNCHANGED ledgerVars
  PROVE  LedgerTypeOK' /\ PositionSound' /\ FundsFollowOperator
BY V1!LedgerUnchanged, SameLedger

\* At first every wallet holds what it started with.
LEMMA ConservedInitially ==
  ASSUME LedgerInit
  PROVE  Conserved
BY V1!ConservedInitially, SameLedger, SameConserved

\* A stake by the wallet bound already, or for an agent that is not bound.
LEMMA DepositConserves ==
  ASSUME LedgerTypeOK, PositionSound, Conserved,
         NEW a \in Agent, NEW sender \in Account, NEW amount \in 1..Endowment,
         Deposit(a, sender, amount),
         operatorOf[a] \in {NoAddress, sender}
  PROVE  Conserved'
BY V1!DepositConserves, SameLedger, SameConserved

\* A withdrawal, if no other binding is touched.
LEMMA PayOutConserves ==
  ASSUME LedgerTypeOK, PositionSound, Conserved,
         NEW a \in Agent, NEW sender \in Account, NEW amount \in 1..stakeOf[a],
         PayOut(a, sender, amount),
         operatorOf' \in [Agent -> Account \cup {NoAddress}],
         \A b \in Agent :
           operatorOf'[b] = operatorOf[b] \/ (b = a /\ stakeOf'[b] = 0)
  PROVE  Conserved'
BY V1!PayOutConserves, SameLedger, SameConserved

\* A step that moves no G$, no bond and no binding.
LEMMA UnmovedConserves ==
  ASSUME Conserved, UNCHANGED <<balance, operatorOf, stakeOf>>
  PROVE  Conserved'
BY V1!UnmovedConserves, SameLedger, SameConserved

\* The vault starts with nothing and owes nothing.
LEMMA SolventInitially ==
  ASSUME LedgerInit
  PROVE  Solvent
BY V1!SolventInitially, SameLedger, SameSolvent

\* A stake brings in what it books.
LEMMA DepositIsSolvent ==
  ASSUME LedgerTypeOK, PositionSound, Solvent,
         NEW a \in Agent, NEW sender \in Account, NEW amount \in 1..Endowment,
         Deposit(a, sender, amount)
  PROVE  Solvent'
BY V1!DepositIsSolvent, SameLedger, SameSolvent

\* A withdrawal takes out what it strikes off.
LEMMA PayOutIsSolvent ==
  ASSUME LedgerTypeOK, PositionSound, Solvent,
         NEW a \in Agent, NEW sender \in Account, NEW amount \in 1..stakeOf[a],
         PayOut(a, sender, amount),
         operatorOf' \in [Agent -> Account \cup {NoAddress}],
         \A b \in Agent :
           operatorOf'[b] = operatorOf[b] \/ (b = a /\ stakeOf'[b] = 0)
  PROVE  Solvent'
BY V1!PayOutIsSolvent, SameLedger, SameSolvent

\* A step that moves no G$ and no bond.
LEMMA UnmovedIsSolvent ==
  ASSUME Solvent, UNCHANGED <<balance, stakeOf>>
  PROVE  Solvent'
BY V1!UnmovedIsSolvent, SameLedger, SameSolvent

\* No agent's bond is more than all of them.
LEMMA SolventRefunds ==
  ASSUME LedgerTypeOK, Solvent
  PROVE  Refundable
BY V1!SolventRefunds, SameLedger, SameSolvent

-----------------------------------------------------------------------------

ConsentRecorded ==
  \A a \in Agent : approvedOperatorOf[a] # NoAddress => approvedOperatorOf[a] \in consented[a]

RelayedAreSpent == \A m \in relayed : m.nonce < nonces[m.agent]

PlacedInThePast == \A a \in Agent : bondedSince[a] <= now

IInv ==
  /\ TypeOK
  /\ PositionSound
  /\ BindingIsEarned
  /\ PendingUnstakeSound
  /\ ConsentRecorded
  /\ RelayedAreSpent
  /\ PlacedInThePast

\* The deployed contract starts empty.
LEMMA Initially == Init => IInv
BY LedgerInitially, LedgerAssumption
DEF Init, LedgerInit, RevocationInit, IInv, TypeOK, RevocationTypeOK, BindingIsEarned,
    PendingUnstakeSound, ConsentRecorded, RelayedAreSpent, PlacedInThePast

\* Time only moves unlock times and placements further into the past.
LEMMA TickStep ==
  ASSUME IInv, Tick, UNCHANGED <<revokedAt, consentVars>>
  PROVE  IInv'
<1>1. LedgerTypeOK' /\ PositionSound'
  BY TickKeeps DEF IInv, TypeOK
<1>2. now \in Nat /\ now' = now + 1 /\ \A a \in Agent : bondedSince[a] \in Nat
  BY DEF IInv, TypeOK, LedgerTypeOK, Tick
<1> QED
  BY <1>1, <1>2
  DEF Tick, IInv, TypeOK, RevocationTypeOK, BindingIsEarned, PendingUnstakeSound,
      ConsentRecorded, RelayedAreSpent, PlacedInThePast, consentVars

\* A new approval leaves bindings alone and is recorded as consent.
LEMMA ApproveStep ==
  ASSUME IInv, NEW a \in Agent, NEW o \in Account, Approve(a, o)
  PROVE  /\ LedgerTypeOK' /\ RevocationTypeOK'
         /\ PositionSound' /\ BindingIsEarned' /\ PendingUnstakeSound'
         /\ ConsentRecorded' /\ PlacedInThePast'
         /\ approvedOperatorOf' \in [Agent -> Account \cup {NoAddress}]
         /\ consented' \in [Agent -> SUBSET Account]
<1> USE DEF IInv, TypeOK
<1>1. /\ approvedOperatorOf' = [approvedOperatorOf EXCEPT ![a] = o]
      /\ consented' = [consented EXCEPT ![a] = consented[a] \cup {o}]
      /\ UNCHANGED <<ledgerVars, revokedAt>>
  BY DEF Approve
<1>2. LedgerTypeOK' /\ PositionSound'
  BY <1>1, LedgerUnchanged
<1>3. RevocationTypeOK' /\ PendingUnstakeSound' /\ PlacedInThePast'
  BY <1>1 DEF RevocationTypeOK, PendingUnstakeSound, PlacedInThePast, ledgerVars
<1>4. \A b \in Agent : consented[b] \subseteq consented'[b]
  BY <1>1
<1>5. BindingIsEarned'
  BY <1>1, <1>4 DEF BindingIsEarned, ledgerVars
<1>6. ConsentRecorded'
  BY <1>1, <1>4 DEF ConsentRecorded
<1> QED
  BY <1>1, <1>2, <1>3, <1>5, <1>6

\* The agent's own transaction.
LEMMA ApproveOperatorStep ==
  ASSUME IInv, NEW a \in Agent, NEW o \in Account, ApproveOperator(a, o)
  PROVE  IInv'
BY ApproveStep DEF ApproveOperator, IInv, TypeOK, RelayedAreSpent

\* A signature alone changes nothing on chain.
LEMMA SignApprovalStep ==
  ASSUME IInv, NEW a \in Agent, NEW o \in Account, NEW deadline \in now..MaxTime,
         SignApproval(a, o, deadline)
  PROVE  IInv'
<1> USE DEF IInv, TypeOK
<1>1. /\ signed' = signed \cup
           {[agent |-> a, operator |-> o, nonce |-> nonces[a], deadline |-> deadline]}
      /\ UNCHANGED <<ledgerVars, revokedAt, approvedOperatorOf, nonces, relayed, consented>>
  BY DEF SignApproval
<1>2. deadline \in Nat
  BY LedgerAssumption DEF LedgerTypeOK
<1>3. signed' \subseteq Approval /\ relayed' \subseteq signed'
  BY <1>1, <1>2 DEF Approval
<1>4. LedgerTypeOK' /\ PositionSound'
  BY <1>1, LedgerUnchanged
<1> QED
  BY <1>1, <1>3, <1>4
  DEF RevocationTypeOK, BindingIsEarned, PendingUnstakeSound, ConsentRecorded,
      RelayedAreSpent, PlacedInThePast, ledgerVars

\* The nonce of the accepted message is spent with it.
LEMMA ApproveOperatorForStep ==
  ASSUME IInv, NEW m \in signed, ApproveOperatorFor(m)
  PROVE  IInv'
<1> USE DEF IInv, TypeOK
<1>1. m.agent \in Agent /\ m.operator \in Account /\ m.nonce \in Nat
  BY DEF Approval
<1>2. /\ Approve(m.agent, m.operator)
      /\ m.nonce = nonces[m.agent]
      /\ nonces' = [nonces EXCEPT ![m.agent] = nonces[m.agent] + 1]
      /\ relayed' = relayed \cup {m}
      /\ UNCHANGED signed
  BY DEF ApproveOperatorFor
<1>3. nonces' \in [Agent -> Nat] /\ \A b \in Agent : nonces[b] <= nonces'[b]
  BY <1>1, <1>2
<1>4. RelayedAreSpent'
  <2> SUFFICES ASSUME NEW n \in relayed' PROVE n.nonce < nonces'[n.agent]
    BY DEF RelayedAreSpent
  <2>1. CASE n = m
    BY <1>1, <1>2, <2>1
  <2>2. CASE n \in relayed
    <3>1. n.agent \in Agent /\ n.nonce \in Nat /\ n.nonce < nonces[n.agent]
      BY <2>2 DEF Approval, RelayedAreSpent
    <3> QED
      BY <1>3, <3>1
  <2> QED
    BY <1>2, <2>1, <2>2
<1> QED
  BY <1>1, <1>2, <1>3, <1>4, ApproveStep

\* A first stake binds the wallet whose approval is in force.
LEMMA StakeStep ==
  ASSUME IInv, NEW a \in Agent, NEW s \in Account, NEW amount \in 1..Endowment,
         Stake(a, s, amount)
  PROVE  IInv'
<1> USE DEF IInv, TypeOK
<1>1. /\ Deposit(a, s, amount)
      /\ UNCHANGED <<revokedAt, consentVars>>
      /\ \/ operatorOf[a] = NoAddress /\ approvedOperatorOf[a] = s
         \/ operatorOf[a] = s
  BY DEF Stake
<1>2. LedgerTypeOK' /\ PositionSound' /\ stakeOf'[a] # 0
  BY <1>1, DepositKeeps
<1>3. /\ operatorOf' = [operatorOf EXCEPT ![a] = s]
      /\ stakeOf' = [stakeOf EXCEPT ![a] = stakeOf[a] + amount]
      /\ bondedSince' = [bondedSince EXCEPT
                           ![a] = IF stakeOf[a] = 0 THEN now ELSE bondedSince[a]]
      /\ UNCHANGED <<now, unstakeUnlockAt>>
  BY <1>1 DEF Deposit
<1>4. BindingIsEarned'
  <2>1. s # NoAddress
    BY LedgerAssumption
  <2>2. s \in consented[a]
    BY <1>1, <2>1 DEF BindingIsEarned, ConsentRecorded
  <2> QED
    BY <1>1, <1>2, <1>3, <2>2 DEF BindingIsEarned, LedgerTypeOK, consentVars
<1>5. PendingUnstakeSound'
  <2> SUFFICES ASSUME NEW b \in Agent, unstakeUnlockAt[b] # 0
               PROVE  stakeOf'[b] # 0 /\ unstakeUnlockAt[b] >= bondedSince'[b] + Cooldown
    BY <1>3 DEF PendingUnstakeSound
  <2>1. stakeOf[b] # 0 /\ unstakeUnlockAt[b] >= bondedSince[b] + Cooldown
    BY DEF PendingUnstakeSound
  <2> QED
    BY <1>2, <1>3, <2>1 DEF LedgerTypeOK
<1>6. PlacedInThePast'
  BY <1>3 DEF PlacedInThePast, LedgerTypeOK
<1> QED
  BY <1>1, <1>2, <1>4, <1>5, <1>6
  DEF RevocationTypeOK, ConsentRecorded, RelayedAreSpent, consentVars

\* Only the operator of a placed bond can request, so there is a bond to unlock.
LEMMA RequestStep ==
  ASSUME IInv, NEW a \in Agent, NEW s \in Account,
         RequestUnstake(a, s), UNCHANGED <<revokedAt, consentVars>>
  PROVE  IInv'
<1> USE DEF IInv, TypeOK
<1>1. LedgerTypeOK' /\ PositionSound'
  BY RequestKeeps
<1>2. /\ operatorOf[a] = s
      /\ unstakeUnlockAt' = [unstakeUnlockAt EXCEPT ![a] = now + Cooldown]
      /\ UNCHANGED <<now, balance, operatorOf, stakeOf, bondedSince>>
  BY DEF RequestUnstake
<1>3. PendingUnstakeSound'
  <2> SUFFICES ASSUME NEW b \in Agent, unstakeUnlockAt'[b] # 0
               PROVE  stakeOf[b] # 0 /\ unstakeUnlockAt'[b] >= bondedSince[b] + Cooldown
    BY <1>2 DEF PendingUnstakeSound
  <2>1. CASE b = a
    <3>1. stakeOf[a] # 0
      BY <1>2, LedgerAssumption DEF BindingIsEarned
    <3>2. bondedSince[a] <= now /\ bondedSince[a] \in Nat /\ now \in Nat /\ Cooldown \in Nat
      BY LedgerAssumption DEF PlacedInThePast, LedgerTypeOK
    <3> QED
      BY <1>2, <2>1, <3>1, <3>2 DEF LedgerTypeOK
  <2>2. CASE b # a
    BY <1>2, <2>2 DEF PendingUnstakeSound, LedgerTypeOK
  <2> QED
    BY <2>1, <2>2
<1> QED
  BY <1>1, <1>2, <1>3
  DEF RevocationTypeOK, BindingIsEarned, ConsentRecorded, RelayedAreSpent,
      PlacedInThePast, consentVars

\* A withdrawal clears the request; a full one clears binding and consent too.
LEMMA WithdrawStep ==
  ASSUME IInv, NEW a \in Agent, NEW s \in Account, NEW amount \in 1..stakeOf[a],
         WithdrawStake(a, s, amount)
  PROVE  IInv' /\ FundsFollowOperator
<1> USE DEF IInv, TypeOK
<1>1. /\ PayOut(a, s, amount)
      /\ UNCHANGED <<revokedAt, nonces, signed, relayed>>
      /\ stakeOf' = [stakeOf EXCEPT ![a] = stakeOf[a] - amount]
      /\ unstakeUnlockAt' = [unstakeUnlockAt EXCEPT ![a] = 0]
      /\ bondedSince' = [bondedSince EXCEPT
                           ![a] = IF stakeOf[a] - amount = 0 THEN 0 ELSE bondedSince[a]]
      /\ UNCHANGED now
  BY DEF WithdrawStake, PayOut
<1>2. \/ /\ stakeOf'[a] = 0
         /\ operatorOf' = [operatorOf EXCEPT ![a] = NoAddress]
         /\ approvedOperatorOf' = [approvedOperatorOf EXCEPT ![a] = NoAddress]
         /\ consented' = [consented EXCEPT ![a] = {}]
      \/ stakeOf'[a] # 0 /\ UNCHANGED <<operatorOf, approvedOperatorOf, consented>>
  BY DEF WithdrawStake
<1>3. /\ operatorOf' \in [Agent -> Account \cup {NoAddress}]
      /\ approvedOperatorOf' \in [Agent -> Account \cup {NoAddress}]
      /\ consented' \in [Agent -> SUBSET Account]
      /\ \A b \in Agent : operatorOf'[b] = operatorOf[b] \/ (b = a /\ stakeOf'[b] = 0)
  BY <1>2 DEF LedgerTypeOK
<1>4. LedgerTypeOK' /\ PositionSound' /\ FundsFollowOperator
  BY <1>1, <1>3, PayOutKeeps
<1>5. BindingIsEarned' /\ ConsentRecorded'
  BY <1>1, <1>2 DEF BindingIsEarned, ConsentRecorded, LedgerTypeOK
<1>6. PendingUnstakeSound'
  BY <1>1 DEF PendingUnstakeSound, LedgerTypeOK
<1>7. PlacedInThePast'
  BY <1>1 DEF PlacedInThePast, LedgerTypeOK
<1> QED
  BY <1>1, <1>3, <1>4, <1>5, <1>6, <1>7 DEF RevocationTypeOK, RelayedAreSpent

\* The kill switch touches neither ledger nor consent.
LEMMA SwitchStep ==
  ASSUME IInv, NEW a \in Agent, NEW s \in Account,
         Revoke(a, s) \/ Reinstate(a, s), UNCHANGED consentVars
  PROVE  IInv'
<1> USE DEF IInv, TypeOK
<1>1. revokedAt' \in [Agent -> Nat] /\ UNCHANGED ledgerVars
  BY DEF Revoke, Reinstate, RevocationTypeOK, LedgerTypeOK
<1>2. LedgerTypeOK' /\ PositionSound'
  BY <1>1, LedgerUnchanged
<1> QED
  BY <1>1, <1>2
  DEF RevocationTypeOK, BindingIsEarned, PendingUnstakeSound, ConsentRecorded,
      RelayedAreSpent, PlacedInThePast, ledgerVars, consentVars

\* Nothing happens.
LEMMA Stutter ==
  ASSUME IInv, UNCHANGED vars
  PROVE  IInv'
BY LedgerUnchanged
DEF IInv, TypeOK, RevocationTypeOK, BindingIsEarned, PendingUnstakeSound, ConsentRecorded,
    RelayedAreSpent, PlacedInThePast, vars, ledgerVars, consentVars

\* Every reachable state satisfies IInv.
THEOREM Invariance == Spec => []IInv
<1>1. IInv /\ [Next]_vars => IInv'
  BY TickStep, ApproveOperatorStep, SignApprovalStep, ApproveOperatorForStep, StakeStep,
     RequestStep, WithdrawStep, SwitchStep, Stutter
  DEF Next
<1> QED
  BY Initially, <1>1, PTL DEF Spec

\* The vault's variables keep their types.
THEOREM TypeCorrect == Spec => []TypeOK
<1>1. IInv => TypeOK
  BY DEF IInv
<1> QED
  BY <1>1, Invariance, PTL

\* A bond always has an operator to return to, and is never dust.
THEOREM PositionsSound == Spec => []PositionSound
<1>1. IInv => PositionSound
  BY DEF IInv
<1> QED
  BY <1>1, Invariance, PTL

\* No binding without a bond, and none the agent did not consent to since the
\* previous operator left.
THEOREM BindingsEarned == Spec => []BindingIsEarned
<1>1. IInv => BindingIsEarned
  BY DEF IInv
<1> QED
  BY <1>1, Invariance, PTL

\* A pending unstake is of a placed bond and unlocks a cooldown after it was placed.
THEOREM PendingSound == Spec => []PendingUnstakeSound
<1>1. IInv => PendingUnstakeSound
  BY DEF IInv
<1> QED
  BY <1>1, Invariance, PTL

-----------------------------------------------------------------------------

\* Only a withdrawal lowers a bond, and it waits for the unlock time.
LEMMA OnlyWithdrawalLowers ==
  ASSUME IInv, Next
  PROVE  LockedForCooldown
<1> SUFFICES ASSUME NEW b \in Agent, stakeOf'[b] < stakeOf[b]
             PROVE  now >= bondedSince[b] + Cooldown
  BY DEF LockedForCooldown
<1> USE DEF IInv, TypeOK, LedgerTypeOK
<1>1. ASSUME NEW a \in Agent, NEW s \in Account, NEW amount \in 1..stakeOf[a],
             WithdrawStake(a, s, amount)
      PROVE  now >= bondedSince[b] + Cooldown
  <2>1. /\ stakeOf' = [stakeOf EXCEPT ![a] = stakeOf[a] - amount]
        /\ unstakeUnlockAt[a] # 0 /\ now >= unstakeUnlockAt[a]
    BY <1>1 DEF WithdrawStake, PayOut
  <2>2. b = a
    BY <2>1
  <2>3. unstakeUnlockAt[a] >= bondedSince[a] + Cooldown
    BY <2>1 DEF PendingUnstakeSound
  <2> QED
    BY <2>1, <2>2, <2>3, LedgerAssumption
<1>2. ASSUME NEW a \in Agent, NEW s \in Account, NEW amount \in 1..Endowment,
             Stake(a, s, amount)
      PROVE  FALSE
  <2>1. stakeOf' = [stakeOf EXCEPT ![a] = stakeOf[a] + amount] /\ amount \in Nat
    BY <1>2, LedgerAssumption DEF Stake, Deposit
  <2> QED
    BY <2>1
<1>3. CASE UNCHANGED stakeOf
  BY <1>3
<1> QED
  BY <1>1, <1>2, <1>3
  DEF Next, Tick, ApproveOperatorFor, ApproveOperator, Approve, SignApproval,
      RequestUnstake, Revoke, Reinstate, ledgerVars

\* No bond is withdrawn sooner than one cooldown after it was placed.
THEOREM Locked == Spec => LockedForCooldownStep
<1>1. IInv /\ [Next]_vars => [LockedForCooldown]_vars
  BY OnlyWithdrawalLowers
<1> QED
  BY <1>1, Invariance, PTL DEF Spec, LockedForCooldownStep

\* An accepted message was signed for a nonce no accepted message had.
THEOREM SingleUse == Spec => ApprovalsSingleUse
<1> DEFINE Once == \A m \in signed :
                     ApproveOperatorFor(m) =>
                       \A n \in relayed : n.agent = m.agent => n.nonce # m.nonce
<1>1. IInv /\ [Next]_vars => [Once]_vars
  <2> SUFFICES ASSUME IInv, NEW m \in signed, ApproveOperatorFor(m),
                      NEW n \in relayed, n.agent = m.agent
               PROVE  n.nonce # m.nonce
    OBVIOUS
  <2>1. n.nonce \in Nat /\ n.nonce < nonces[n.agent] /\ m.nonce = nonces[m.agent]
    BY DEF IInv, TypeOK, Approval, RelayedAreSpent, ApproveOperatorFor
  <2> QED
    BY <2>1
<1> QED
  BY <1>1, Invariance, PTL DEF Spec, ApprovalsSingleUse

\* Non-custodial: G$ moves only between the vault and the operator of the one
\* agent whose bond changes, by exactly that change.
THEOREM NonCustodial == Spec => FundsFollowOperatorStep
<1>1. IInv /\ [Next]_vars => [FundsFollowOperator]_vars
  <2> SUFFICES ASSUME IInv, Next PROVE FundsFollowOperator
    OBVIOUS
  <2>1. ASSUME NEW a \in Agent, NEW s \in Account, NEW amount \in 1..Endowment,
               Stake(a, s, amount)
        PROVE  FundsFollowOperator
    BY <2>1, DepositKeeps DEF Stake, IInv, TypeOK
  <2>2. CASE UNCHANGED balance
    BY <2>2 DEF FundsFollowOperator
  <2> QED
    BY <2>1, <2>2, WithdrawStep
    DEF Next, Tick, ApproveOperatorFor, ApproveOperator, Approve, SignApproval,
        RequestUnstake, Revoke, Reinstate, ledgerVars
<1> QED
  BY <1>1, Invariance, PTL DEF Spec, FundsFollowOperatorStep

\* What every step conserves, by the invariant: a bond is only paid in by the
\* wallet it is bound to, or a first one, and the binding that a full exit
\* clears has no bond any more.
LEMMA Conserves ==
  ASSUME IInv, Conserved, [Next]_vars
  PROVE  Conserved'
<1> USE DEF IInv, TypeOK
<1>1. ASSUME NEW a \in Agent, NEW s \in Account, NEW amount \in 1..Endowment,
             Stake(a, s, amount)
      PROVE  Conserved'
  BY <1>1, DepositConserves DEF Stake
<1>2. ASSUME NEW a \in Agent, NEW s \in Account, NEW amount \in 1..stakeOf[a],
             WithdrawStake(a, s, amount)
      PROVE  Conserved'
  <2>1. /\ operatorOf' \in [Agent -> Account \cup {NoAddress}]
        /\ \A b \in Agent : operatorOf'[b] = operatorOf[b] \/ (b = a /\ stakeOf'[b] = 0)
        /\ PayOut(a, s, amount)
    BY <1>2 DEF WithdrawStake, LedgerTypeOK
  <2> QED
    BY <2>1, PayOutConserves
<1>3. CASE UNCHANGED <<balance, operatorOf, stakeOf>>
  BY <1>3, UnmovedConserves
<1> QED
  BY <1>1, <1>2, <1>3
  DEF Next, Tick, ApproveOperatorFor, ApproveOperator, Approve, SignApproval, RequestUnstake,
      Revoke, Reinstate, vars, ledgerVars

\* Always refundable, though bindings come and go: every wallet's G$ and the
\* bonds behind its agents add up to what it started with.
THEOREM Conservation == Spec => []Conserved
<1>1. Init => Conserved
  BY ConservedInitially DEF Init
<1> QED
  BY <1>1, Conserves, Invariance, PTL DEF Spec

\* What the vault holds and what it owes change together, here too.
LEMMA StaysSolvent ==
  ASSUME IInv, Solvent, [Next]_vars
  PROVE  Solvent'
<1> USE DEF IInv, TypeOK
<1>1. ASSUME NEW a \in Agent, NEW s \in Account, NEW amount \in 1..Endowment,
             Stake(a, s, amount)
      PROVE  Solvent'
  BY <1>1, DepositIsSolvent DEF Stake
<1>2. ASSUME NEW a \in Agent, NEW s \in Account, NEW amount \in 1..stakeOf[a],
             WithdrawStake(a, s, amount)
      PROVE  Solvent'
  <2>1. /\ operatorOf' \in [Agent -> Account \cup {NoAddress}]
        /\ \A b \in Agent : operatorOf'[b] = operatorOf[b] \/ (b = a /\ stakeOf'[b] = 0)
        /\ PayOut(a, s, amount)
    BY <1>2 DEF WithdrawStake, LedgerTypeOK
  <2> QED
    BY <2>1, PayOutIsSolvent
<1>3. CASE UNCHANGED <<balance, stakeOf>>
  BY <1>3, UnmovedIsSolvent
<1> QED
  BY <1>1, <1>2, <1>3
  DEF Next, Tick, ApproveOperatorFor, ApproveOperator, Approve, SignApproval, RequestUnstake,
      Revoke, Reinstate, vars, ledgerVars

\* The vault always holds exactly the bonds on its books.
THEOREM Solvency == Spec => []Solvent
<1>1. Init => Solvent
  BY SolventInitially DEF Init
<1> QED
  BY <1>1, StaysSolvent, Invariance, PTL DEF Spec

\* No withdrawal is ever refused for want of G$ in the vault.
THEOREM AlwaysRefundable == Spec => []Refundable
<1>1. IInv /\ Solvent => Refundable
  BY SolventRefunds DEF IInv, TypeOK
<1> QED
  BY <1>1, Solvency, Invariance, PTL

-----------------------------------------------------------------------------

\* What a reader of the contracts sees of each step: a bond placed or
\* released, a switch moved, or, for consent and partial moves, nothing.
LEMMA StepRefines ==
  ASSUME IInv, Next
  PROVE  [Bond!BondNext]_(Bond!bondVars)
<1> DEFINE bonded == [a \in Agent |-> stakeOf[a] # 0]
           revoked == [a \in Agent |-> revokedAt[a] # 0]
<1> USE DEF IInv, TypeOK, LedgerTypeOK, RevocationTypeOK
<1>1. ASSUME NEW a \in Agent, NEW s \in Account, NEW amount \in 1..Endowment,
             Stake(a, s, amount)
      PROVE  Bond!Bond(a, s) \/ UNCHANGED Bond!bondVars
  <2>1. /\ Deposit(a, s, amount)
        /\ operatorOf[a] \in {NoAddress, s}
        /\ UNCHANGED revokedAt
        /\ operatorOf' = [operatorOf EXCEPT ![a] = s]
        /\ stakeOf' = [stakeOf EXCEPT ![a] = stakeOf[a] + amount]
    BY <1>1 DEF Stake, Deposit
  <2>2. stakeOf'[a] # 0
    BY <2>1, DepositKeeps
  <2>3. bonded' = [bonded EXCEPT ![a] = TRUE] /\ revoked' = revoked
    BY <2>1, <2>2
  <2>4. CASE stakeOf[a] = 0
    BY <2>1, <2>3, <2>4 DEF Bond!Bond
  <2>5. CASE stakeOf[a] # 0
    <3>1. operatorOf' = operatorOf
      BY <2>1, <2>5 DEF PositionSound
    <3>2. bonded' = bonded
      BY <2>3, <2>5
    <3> QED
      BY <2>3, <3>1, <3>2 DEF Bond!bondVars
  <2> QED
    BY <2>4, <2>5
<1>2. ASSUME NEW a \in Agent, NEW s \in Account, NEW amount \in 1..stakeOf[a],
             WithdrawStake(a, s, amount)
      PROVE  Bond!Release(a) \/ UNCHANGED Bond!bondVars
  <2>1. /\ stakeOf' = [stakeOf EXCEPT ![a] = stakeOf[a] - amount]
        /\ IF stakeOf'[a] = 0
           THEN operatorOf' = [operatorOf EXCEPT ![a] = NoAddress]
           ELSE UNCHANGED operatorOf
        /\ UNCHANGED revokedAt
        /\ stakeOf[a] # 0
    BY <1>2 DEF WithdrawStake, PayOut
  <2>2. CASE stakeOf[a] - amount = 0
    BY <2>1, <2>2 DEF Bond!Release
  <2>3. CASE stakeOf[a] - amount # 0
    BY <2>1, <2>3 DEF Bond!bondVars
  <2> QED
    BY <2>2, <2>3
<1>3. ASSUME NEW a \in Agent, NEW s \in Account, Revoke(a, s)
      PROVE  Bond!SetRevoked(a, TRUE)
  <2>1. /\ revokedAt' = [revokedAt EXCEPT ![a] = IF revokedAt[a] = 0 THEN now ELSE revokedAt[a]]
        /\ operatorOf[a] # NoAddress
        /\ UNCHANGED <<operatorOf, stakeOf>>
    BY <1>3 DEF Revoke, OnlyOperator, ledgerVars
  <2>2. revokedAt'[a] # 0
    BY <2>1
  <2> QED
    BY <2>1, <2>2 DEF Bond!SetRevoked
<1>4. ASSUME NEW a \in Agent, NEW s \in Account, Reinstate(a, s)
      PROVE  Bond!SetRevoked(a, FALSE)
  BY <1>4 DEF Reinstate, OnlyOperator, ledgerVars, Bond!SetRevoked
<1>5. CASE UNCHANGED <<operatorOf, stakeOf, revokedAt>>
  BY <1>5 DEF Bond!bondVars
<1>6. ASSUME NEW a \in Agent, NEW s \in Account, Bond!Bond(a, s)
      PROVE  Bond!BondNext
  BY <1>6 DEF Bond!BondNext
<1>7. ASSUME NEW a \in Agent, Bond!Release(a)
      PROVE  Bond!BondNext
  BY <1>7 DEF Bond!BondNext
<1>8. ASSUME NEW a \in Agent, NEW flag \in BOOLEAN, Bond!SetRevoked(a, flag)
      PROVE  Bond!BondNext
  BY <1>8 DEF Bond!BondNext
<1> QED
  BY <1>1, <1>2, <1>3, <1>4, <1>5, <1>6, <1>7, <1>8
  DEF Next, Tick, ApproveOperatorFor, ApproveOperator, Approve, SignApproval, RequestUnstake,
      ledgerVars

\* V2 and its revocation registry implement AgentBond too: what V1's readers rely
\* on survives the upgrade.
THEOREM Refinement == Spec => ImplementsBond
<1>1. Init => Bond!BondInit
  BY DEF Init, LedgerInit, RevocationInit, Bond!BondInit
<1>2. IInv /\ [Next]_vars => [Bond!BondNext]_(Bond!bondVars)
  <2>1. CASE UNCHANGED vars
    BY <2>1 DEF vars, ledgerVars, Bond!bondVars
  <2> QED
    BY <2>1, StepRefines
<1> QED
  BY <1>1, <1>2, Invariance, PTL DEF Spec, ImplementsBond, Bond!BondSpec

=============================================================================
