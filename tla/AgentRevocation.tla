-------------------------- MODULE AgentRevocation --------------------------
(***************************************************************************)
(* The operator's kill switch.  Authority is read from the paired vault's  *)
(* operatorOf at the time of the call; the switch itself knows no bond.    *)
(***************************************************************************)
EXTENDS VaultLedger

VARIABLE revokedAt   \* timestamp of the first revocation, 0 = active

RevocationTypeOK == revokedAt \in [Agent -> Nat]

RevocationInit == revokedAt = [a \in Agent |-> 0]

\* Mutant: anybody flips the switch, of unknown agents too.
OnlyOperatorUnchecked(a, sender) == TRUE

\* _onlyOperator: an agent without an operator is unknown, and nobody's.
OnlyOperator(a, sender) ==
  /\ operatorOf[a] # NoAddress
  /\ operatorOf[a] = sender

\* Revoking again keeps the first timestamp.
Revoke(a, sender) ==
  /\ OnlyOperator(a, sender)
  /\ revokedAt' = [revokedAt EXCEPT ![a] = IF @ = 0 THEN now ELSE @]
  /\ UNCHANGED ledgerVars

Reinstate(a, sender) ==
  /\ OnlyOperator(a, sender)
  /\ revokedAt' = [revokedAt EXCEPT ![a] = 0]
  /\ UNCHANGED ledgerVars

=============================================================================
