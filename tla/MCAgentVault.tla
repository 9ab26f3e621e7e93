---------------------------- MODULE MCAgentVault ----------------------------
EXTENDS AgentVault, TLC

\* Wallets are interchangeable, and so are agents.
Symmetry == Permutations(Account) \cup Permutations(Agent)
=============================================================================
