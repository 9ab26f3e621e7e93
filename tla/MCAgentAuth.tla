---------------------------- MODULE MCAgentAuth ----------------------------
EXTENDS AgentAuth, TLC

CONSTANTS a1, a2, shop, n1, n2, only, plain, padded

Symmetry == Permutations(Request)

MaxAgeOf == [e \in Endpoint |-> IF e = "issue" THEN 2 ELSE 1]

\* A number written in one way, and one written in two.
ReadsAs == [t \in Text |-> IF t = only THEN n1 ELSE n2]

ProofOf(agent, audience, nonce, issuedAt) ==
  [agent |-> agent, audience |-> audience, nonce |-> nonce, issuedAt |-> issuedAt]

\* One nonce under two agents, two audiences and two dates, and a proof whose
\* nonce may be written in two ways.
SignedProofs ==
  {ProofOf(a1, Register, n1, 2), ProofOf(a1, Register, n1, 3),
   ProofOf(a1, shop, n1, 2), ProofOf(a2, Register, n1, 2), ProofOf(a1, Register, n2, 2)}

=============================================================================
