--------------------------- MODULE MCAgentVerify ---------------------------
EXTENDS AgentVerify, TLC

\* Handlers are interchangeable.
Symmetry == Permutations(Handler)
=============================================================================
