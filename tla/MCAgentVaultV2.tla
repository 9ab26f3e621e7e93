--------------------------- MODULE MCAgentVaultV2 ---------------------------
EXTENDS AgentVaultV2, TLC

\* Wallets are interchangeable.
Symmetry == Permutations(Account)
=============================================================================
