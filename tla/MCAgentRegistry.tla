-------------------------- MODULE MCAgentRegistry --------------------------
EXTENDS AgentRegistry, TLC

\* Agents, wallets and handlers are each interchangeable.
Symmetry ==
  Permutations(Agent) \cup Permutations(Account) \cup Permutations(Request)
=============================================================================
