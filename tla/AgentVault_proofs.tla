-------------------------- MODULE AgentVault_proofs --------------------------
(***************************************************************************)
(* The deployed vault: its types, positions and money flow, that no wallet *)
(* loses or gains G$ by it, its permanent operators, and that it           *)
(* implements AgentBond, for all values of the constants.  The inductive   *)
(* invariant is TypeOK, PositionSound and Conserved together.              *)
(*   First come lemmas on the sums in Conserved, then those on the ledger, *)
(* which AgentVaultV2_proofs cites as well, and last the vault's own.      *)
(***************************************************************************)
EXTENDS AgentVault, FiniteSetTheorems, WellFoundedInduction, TLAPS

-----------------------------------------------------------------------------

(***************************************************************************)
(* Sums.  MapThenSumSet is a recursive function on the subsets of a set,   *)
(* chosen by what it must satisfy: that there is one, that it is the only  *)
(* one, and that the order of the addition makes no difference, follows    *)
(* from a smallest counterexample being impossible.                        *)
(***************************************************************************)

\* The sum that Conserved takes of the bonds behind a wallet's agents.
Total(f, S) == MapThenSumSet(LAMBDA a : f[a], S)

\* The recursion it stands for: an element is taken out, and the rest is added.
First(s) == CHOOSE x \in s : TRUE
Added(f, h, s) == IF s = {} THEN 0 ELSE f[First(s)] + h[s \ {First(s)}]
IsSum(f, S, h) == h = [s \in SUBSET S |-> Added(f, h, s)]
TheSum(f, S) == CHOOSE h : IsSum(f, S, h)

\* A total is the value of that function.
LEMMA TotalIs ==
  ASSUME NEW f, NEW S
  PROVE  Total(f, S) = TheSum(f, S)[S]
BY Zenon DEF Total, MapThenSumSet, MapThenFoldSet, TheSum, IsSum, Added, First

\* Among the subsets of a finite set, a nonempty family has a smallest member.
LEMMA Smallest ==
  ASSUME NEW S, IsFiniteSet(S), NEW B \in SUBSET (SUBSET S), B # {}
  PROVE  \E s \in B : \A t \in B : t \subseteq s => t = s
<1>1. IsWellFoundedOn(StrictSubsetOrdering(S), SUBSET S)
  BY FS_StrictSubsetOrderingWellFounded, FS_FiniteSubsetsOfFinite
<1>2. PICK s \in B : \A t \in B : ~ (<<t, s>> \in StrictSubsetOrdering(S))
  BY <1>1, WFMin
<1>3. \A t \in B : t \subseteq s => t = s
  BY <1>2 DEF StrictSubsetOrdering
<1> QED
  BY <1>3

\* The element taken out is one.
LEMMA FirstIsIn ==
  ASSUME NEW s, s # {}
  PROVE  First(s) \in s
BY DEF First

\* Two such functions agree where what they add does.
LEMMA SumsAgree ==
  ASSUME NEW f, NEW g, NEW S, NEW T, NEW U \in SUBSET (S \cap T), IsFiniteSet(U),
         IsSum(f, S, TheSum(f, S)), IsSum(g, T, TheSum(g, T)),
         \A x \in U : f[x] = g[x]
  PROVE  TheSum(f, S)[U] = TheSum(g, T)[U]
<1> DEFINE h == TheSum(f, S)
           k == TheSum(g, T)
           B == {s \in SUBSET U : h[s] # k[s]}
<1>1. SUFFICES ASSUME B # {} PROVE FALSE
  OBVIOUS
<1>2. PICK s \in B : \A t \in B : t \subseteq s => t = s
  <2>1. B \in SUBSET (SUBSET U)
    OBVIOUS
  <2> HIDE DEF B
  <2> QED
    BY <1>1, <2>1, Smallest
<1>3. h[s] = Added(f, h, s) /\ k[s] = Added(g, k, s)
  BY DEF IsSum
<1>4. s # {}
  BY <1>3 DEF Added
<1>5. First(s) \in s
  BY <1>4, FirstIsIn
<1>6. h[s \ {First(s)}] = k[s \ {First(s)}]
  BY <1>2, <1>5
<1> QED
  BY <1>3, <1>4, <1>5, <1>6 DEF Added

\* There is such a function for every finite set.
LEMMA SumExists ==
  ASSUME NEW f, NEW S, IsFiniteSet(S)
  PROVE  IsSum(f, S, TheSum(f, S))
<1> DEFINE B == {T \in SUBSET S : ~ \E h : IsSum(f, T, h)}
<1>1. SUFFICES ASSUME B # {} PROVE FALSE
  <2>1. S \notin B => \E h : IsSum(f, S, h)
    OBVIOUS
  <2> QED
    BY <2>1 DEF TheSum
<1>2. PICK T \in B : \A t \in B : t \subseteq T => t = T
  <2>1. B \in SUBSET (SUBSET S)
    OBVIOUS
  <2> HIDE DEF B
  <2> QED
    BY <1>1, <2>1, Smallest
<1>3. ASSUME NEW u \in SUBSET T, u # T
      PROVE  IsSum(f, u, TheSum(f, u)) /\ IsFiniteSet(u)
  <2>1. u \in SUBSET S
    OBVIOUS
  <2>2. u \notin B
    BY <1>2, <1>3
  <2>3. \E h : IsSum(f, u, h)
    BY <2>1, <2>2
  <2> QED
    BY <2>1, <2>3, FS_Subset DEF TheSum
<1> DEFINE k == [s \in SUBSET T |->
             IF s = {} THEN 0
             ELSE f[First(s)] + TheSum(f, s \ {First(s)})[s \ {First(s)}]]
<1>4. ASSUME NEW s \in SUBSET T, s # {}
      PROVE  k[s \ {First(s)}] = TheSum(f, s \ {First(s)})[s \ {First(s)}]
  <2> DEFINE u == s \ {First(s)}
  <2>1. u \in SUBSET T /\ u # T
    BY <1>4, FirstIsIn
  <2>2. IsSum(f, u, TheSum(f, u)) /\ u \in SUBSET u
    BY <1>3, <2>1
  <2>3. TheSum(f, u)[u] = Added(f, TheSum(f, u), u)
    BY <2>2 DEF IsSum
  <2>4. CASE u = {}
    BY <2>1, <2>3, <2>4 DEF Added
  <2>5. CASE u # {}
    <3> DEFINE v == u \ {First(u)}
    <3>1. First(u) \in u
      BY <2>5, FirstIsIn
    <3>2. v \in SUBSET T /\ v # T /\ v \in SUBSET (u \cap v)
      BY <2>1
    <3>3. IsSum(f, v, TheSum(f, v)) /\ IsFiniteSet(v)
      BY <1>3, <3>2
    <3>4. TheSum(f, u)[v] = TheSum(f, v)[v]
      <4> HIDE DEF u, v
      <4>1. \A x \in v : f[x] = f[x]
        OBVIOUS
      <4> QED
        BY ONLY <2>2, <3>2, <3>3, <4>1, SumsAgree
    <3>5. k[u] = f[First(u)] + TheSum(f, v)[v]
      BY <2>1, <2>5
    <3> QED
      BY <2>3, <2>5, <3>4, <3>5 DEF Added
  <2> QED
    BY <2>4, <2>5
<1>5. IsSum(f, T, k)
  <2>1. \A s \in SUBSET T : k[s] = Added(f, k, s)
    BY <1>4 DEF Added
  <2> QED
    BY <2>1 DEF IsSum
<1> QED
  BY <1>5

\* The sum over no element.
LEMMA TotalOfNone ==
  ASSUME NEW f
  PROVE  Total(f, {}) = 0
<1>1. IsSum(f, {}, TheSum(f, {}))
  BY SumExists, FS_EmptySet
<1> QED
  BY <1>1, TotalIs DEF IsSum, Added

\* The recursion equation.
LEMMA TotalFromFirst ==
  ASSUME NEW f, NEW S, IsFiniteSet(S), S # {}
  PROVE  Total(f, S) = f[First(S)] + Total(f, S \ {First(S)})
<1> DEFINE T == S \ {First(S)}
<1>1. IsFiniteSet(T) /\ T \subseteq S
  BY FS_Subset
<1>2. IsSum(f, S, TheSum(f, S)) /\ IsSum(f, T, TheSum(f, T))
  BY <1>1, SumExists
<1>3. TheSum(f, S)[T] = TheSum(f, T)[T]
  <2> HIDE DEF T
  <2>1. T \in SUBSET (S \cap T) /\ \A x \in T : f[x] = f[x]
    BY <1>1
  <2> QED
    BY ONLY <1>1, <1>2, <2>1, SumsAgree
<1>4. TheSum(f, S)[S] = f[First(S)] + TheSum(f, S)[T]
  BY <1>2 DEF IsSum, Added
<1> QED
  BY <1>3, <1>4, TotalIs

\* Functions that agree on a set have the same total over it.
LEMMA TotalSame ==
  ASSUME NEW f, NEW g, NEW S, IsFiniteSet(S), \A x \in S : f[x] = g[x]
  PROVE  Total(f, S) = Total(g, S)
<1>1. IsSum(f, S, TheSum(f, S)) /\ IsSum(g, S, TheSum(g, S)) /\ S \in SUBSET (S \cap S)
  BY SumExists
<1>2. TheSum(f, S)[S] = TheSum(g, S)[S]
  BY <1>1, SumsAgree
<1> QED
  BY <1>2, TotalIs

\* Natural numbers add up to one.
LEMMA TotalIsNat ==
  ASSUME NEW S, IsFiniteSet(S), NEW f, \A x \in S : f[x] \in Nat
  PROVE  Total(f, S) \in Nat
<1> DEFINE B == {s \in SUBSET S : Total(f, s) \notin Nat}
<1>1. SUFFICES ASSUME B # {} PROVE FALSE
  OBVIOUS
<1>2. PICK s \in B : \A t \in B : t \subseteq s => t = s
  <2>1. B \in SUBSET (SUBSET S)
    OBVIOUS
  <2> HIDE DEF B
  <2> QED
    BY <1>1, <2>1, Smallest
<1>3. s # {}
  BY TotalOfNone
<1>4. First(s) \in s /\ IsFiniteSet(s)
  BY <1>3, FirstIsIn, FS_Subset
<1>5. Total(f, s) = f[First(s)] + Total(f, s \ {First(s)})
  BY <1>3, <1>4, TotalFromFirst
<1>6. Total(f, s \ {First(s)}) \in Nat
  BY <1>2, <1>4
<1> QED
  BY <1>4, <1>5, <1>6

\* The order in which elements are added does not matter.
LEMMA TotalWithout ==
  ASSUME NEW S, IsFiniteSet(S), NEW f, \A x \in S : f[x] \in Nat, NEW a \in S
  PROVE  Total(f, S) = f[a] + Total(f, S \ {a})
<1> DEFINE B == {s \in SUBSET S : \E x \in s : Total(f, s) # f[x] + Total(f, s \ {x})}
<1>1. SUFFICES ASSUME B # {} PROVE FALSE
  OBVIOUS
<1>2. PICK s \in B : \A t \in B : t \subseteq s => t = s
  <2>1. B \in SUBSET (SUBSET S)
    OBVIOUS
  <2> HIDE DEF B
  <2> QED
    BY <1>1, <2>1, Smallest
<1>3. PICK x \in s : Total(f, s) # f[x] + Total(f, s \ {x})
  OBVIOUS
<1> DEFINE c == First(s)
<1>4. c \in s /\ IsFiniteSet(s)
  BY FirstIsIn, FS_Subset
<1>5. Total(f, s) = f[c] + Total(f, s \ {c})
  BY <1>4, TotalFromFirst
<1>6. x # c
  BY <1>3, <1>5
<1>7. Total(f, s \ {c}) = f[x] + Total(f, (s \ {c}) \ {x})
  <2>1. s \ {c} \notin B
    BY <1>2, <1>4
  <2> HIDE DEF c
  <2> QED
    BY <1>6, <2>1
<1>8. Total(f, s \ {x}) = f[c] + Total(f, (s \ {x}) \ {c})
  <2>1. s \ {x} \notin B
    BY <1>2
  <2> HIDE DEF c
  <2> QED
    BY <1>4, <1>6, <2>1
<1>9. (s \ {c}) \ {x} = (s \ {x}) \ {c}
  OBVIOUS
<1>10. f[x] \in Nat /\ f[c] \in Nat /\ Total(f, (s \ {c}) \ {x}) \in Nat
  <2> DEFINE t == (s \ {c}) \ {x}
  <2>1. IsFiniteSet(t) /\ \A y \in t : f[y] \in Nat
    BY <1>4, FS_Subset
  <2>2. Total(f, t) \in Nat
    <3> HIDE DEF t
    <3> QED
      BY <2>1, TotalIsNat
  <2> HIDE DEF c
  <2> QED
    BY <1>4, <2>2
<1> DEFINE n == Total(f, (s \ {c}) \ {x})
<1>11. /\ Total(f, s) = f[c] + (f[x] + n)
       /\ Total(f, s \ {x}) = f[c] + n
       /\ n \in Nat
  BY <1>5, <1>7, <1>8, <1>9, <1>10
<1> HIDE DEF c, n
<1>12. f[c] + (f[x] + n) = f[x] + (f[c] + n)
  BY <1>10, <1>11
<1> QED
  BY <1>3, <1>11, <1>12

-----------------------------------------------------------------------------

(***************************************************************************)
(* One call of stake, requestUnstake and withdrawStake, as both vaults     *)
(* have them.                                                              *)
(***************************************************************************)

\* The ledger's initial state is well typed and sound.
LEMMA LedgerInitially ==
  ASSUME LedgerInit
  PROVE  LedgerTypeOK /\ PositionSound
BY LedgerAssumption DEF LedgerInit, LedgerTypeOK, PositionSound

\* A clock tick keeps types and positions.
LEMMA TickKeeps ==
  ASSUME LedgerTypeOK, PositionSound, Tick
  PROVE  LedgerTypeOK' /\ PositionSound'
<1>1. now + 1 \in Nat \ {0}
  BY DEF LedgerTypeOK
<1> QED
  BY <1>1 DEF Tick, LedgerTypeOK, PositionSound

\* A transfer of no more than the balance keeps balances natural numbers, and
\* changes those of its two parties, which differ, by the amount.
LEMMA TransferMoves ==
  ASSUME LedgerTypeOK,
         NEW from \in Account \cup {Vault}, NEW to \in Account \cup {Vault},
         from # to, NEW amount \in Nat, Transfer(from, to, amount)
  PROVE  /\ balance' \in [Account \cup {Vault} -> Nat]
         /\ balance' = [balance EXCEPT ![from] = balance[from] - amount,
                                       ![to] = balance[to] + amount]
<1>1. balance[from] \in Nat /\ balance[to] \in Nat /\ amount <= balance[from]
  BY DEF LedgerTypeOK, Transfer
<1>2. balance[from] - amount \in Nat /\ balance[to] + amount \in Nat
  BY <1>1
<1> QED
  BY <1>1, <1>2 DEF LedgerTypeOK, Transfer

\* A stake keeps types and positions, and raises the bond of its agent only.
LEMMA DepositKeeps ==
  ASSUME LedgerTypeOK, PositionSound,
         NEW a \in Agent, NEW sender \in Account, NEW amount \in 1..Endowment,
         Deposit(a, sender, amount)
  PROVE  /\ LedgerTypeOK'
         /\ PositionSound'
         /\ stakeOf'[a] = stakeOf[a] + amount
         /\ stakeOf'[a] # 0
         /\ FundsFollowOperator
<1> USE DEF LedgerTypeOK
<1>1. amount \in Nat /\ amount # 0 /\ amount > 0
  BY LedgerAssumption
<1>2. stakeOf[a] \in Nat /\ stakeOf[a] + amount \in Nat /\ stakeOf[a] + amount # 0
  BY <1>1
<1>3. sender # Vault /\ sender # NoAddress
  BY LedgerAssumption
<1>4. /\ stakeOf' = [stakeOf EXCEPT ![a] = stakeOf[a] + amount]
      /\ operatorOf' = [operatorOf EXCEPT ![a] = sender]
      /\ stakeOf[a] + amount >= MinStake
  BY DEF Deposit
<1>5. /\ balance' \in [Account \cup {Vault} -> Nat]
      /\ balance' = [balance EXCEPT ![sender] = balance[sender] - amount,
                                    ![Vault] = balance[Vault] + amount]
  BY <1>1, <1>3, TransferMoves DEF Deposit
<1>6. LedgerTypeOK'
  BY <1>2, <1>4, <1>5 DEF Deposit
<1>7. PositionSound'
  <2> SUFFICES ASSUME NEW b \in Agent, stakeOf'[b] # 0
               PROVE  operatorOf'[b] # NoAddress /\ stakeOf'[b] >= MinStake
    BY DEF PositionSound
  <2>1. CASE b = a
    BY <2>1, <1>3, <1>4
  <2>2. CASE b # a
    BY <2>2, <1>4 DEF PositionSound
  <2> QED
    BY <2>1, <2>2
<1>8. stakeOf'[a] = stakeOf[a] + amount
  BY <1>4
<1>9. FundsFollowOperator
  <2>1. stakeOf'[a] # stakeOf[a] /\ operatorOf'[a] = sender
    BY <1>1, <1>2, <1>4
  <2>2. /\ balance[sender] + stakeOf[a] - stakeOf'[a] = balance[sender] - amount
        /\ balance[Vault] + stakeOf'[a] - stakeOf[a] = balance[Vault] + amount
    <3>1. balance[sender] \in Nat /\ balance[Vault] \in Nat
      OBVIOUS
    <3> QED
      BY <1>1, <1>2, <1>8, <3>1
  <2>3. balance' = [balance EXCEPT
                      ![sender] = balance[sender] + stakeOf[a] - stakeOf'[a],
                      ![Vault] = balance[Vault] + stakeOf'[a] - stakeOf[a]]
    BY <1>5, <2>2
  <2>4. \A b \in Agent \ {a} : stakeOf'[b] = stakeOf[b]
    BY <1>4
  <2> QED
    BY <1>3, <2>1, <2>3, <2>4 DEF FundsFollowOperator
<1> QED
  BY <1>2, <1>6, <1>7, <1>8, <1>9

\* A request to unstake keeps types and positions.
LEMMA RequestKeeps ==
  ASSUME LedgerTypeOK, PositionSound,
         NEW a \in Agent, NEW sender \in Account, RequestUnstake(a, sender)
  PROVE  LedgerTypeOK' /\ PositionSound'
<1>1. now + Cooldown \in Nat
  BY LedgerAssumption DEF LedgerTypeOK
<1> QED
  BY <1>1 DEF RequestUnstake, LedgerTypeOK, PositionSound

\* A withdrawal keeps types and positions and lowers the bond of its agent
\* only, if the binding is not lost while a bond remains.
LEMMA PayOutKeeps ==
  ASSUME LedgerTypeOK, PositionSound,
         NEW a \in Agent, NEW sender \in Account, NEW amount \in 1..stakeOf[a],
         PayOut(a, sender, amount),
         operatorOf' \in [Agent -> Account \cup {NoAddress}],
         \A b \in Agent :
           operatorOf'[b] = operatorOf[b] \/ (b = a /\ stakeOf'[b] = 0)
  PROVE  /\ LedgerTypeOK'
         /\ PositionSound'
         /\ stakeOf[a] # 0
         /\ stakeOf'[a] = stakeOf[a] - amount
         /\ FundsFollowOperator
<1> USE DEF LedgerTypeOK
<1>1. /\ stakeOf[a] \in Nat /\ amount \in Nat /\ amount # 0 /\ amount <= stakeOf[a]
      /\ stakeOf[a] - amount \in Nat
  OBVIOUS
<1>2. sender # Vault /\ sender # NoAddress /\ operatorOf[a] = sender
  BY LedgerAssumption DEF PayOut
<1>3. /\ stakeOf' = [stakeOf EXCEPT ![a] = stakeOf[a] - amount]
      /\ stakeOf[a] - amount = 0 \/ stakeOf[a] - amount >= MinStake
  BY DEF PayOut
<1>4. /\ balance' \in [Account \cup {Vault} -> Nat]
      /\ balance' = [balance EXCEPT ![Vault] = balance[Vault] - amount,
                                    ![sender] = balance[sender] + amount]
  <2>1. Transfer(Vault, sender, amount)
    BY DEF PayOut
  <2>2. /\ Vault \in Account \cup {Vault} /\ sender \in Account \cup {Vault}
        /\ Vault # sender /\ amount \in Nat
    BY <1>1, <1>2
  <2> HIDE DEF LedgerTypeOK
  <2> QED
    BY ONLY LedgerTypeOK, <2>1, <2>2, TransferMoves
<1>5. LedgerTypeOK'
  <2>1. stakeOf' \in [Agent -> Nat]
    BY <1>1, <1>3
  <2>2. unstakeUnlockAt' \in [Agent -> Nat] /\ now' \in Nat \ {0}
    BY DEF PayOut
  <2>3. bondedSince' \in [Agent -> Nat]
    BY DEF PayOut
  <2> QED
    BY <1>4, <2>1, <2>2, <2>3
<1>6. PositionSound'
  <2> SUFFICES ASSUME NEW b \in Agent, stakeOf'[b] # 0
               PROVE  operatorOf'[b] # NoAddress /\ stakeOf'[b] >= MinStake
    BY DEF PositionSound
  <2>1. operatorOf'[b] = operatorOf[b]
    OBVIOUS
  <2>2. CASE b = a
    BY <2>1, <2>2, <1>2, <1>3
  <2>3. CASE b # a
    BY <2>1, <2>3, <1>3 DEF PositionSound
  <2> QED
    BY <2>2, <2>3
<1>7. stakeOf'[a] = stakeOf[a] - amount
  BY <1>3
<1>8. FundsFollowOperator
  <2>1. stakeOf'[a] # stakeOf[a]
    BY <1>1, <1>7
  <2>2. /\ balance[sender] + stakeOf[a] - stakeOf'[a] = balance[sender] + amount
        /\ balance[Vault] + stakeOf'[a] - stakeOf[a] = balance[Vault] - amount
    <3>1. balance[sender] \in Nat /\ balance[Vault] \in Nat
      OBVIOUS
    <3> QED
      BY <1>1, <1>7, <3>1
  <2>3. balance' = [balance EXCEPT
                      ![sender] = balance[sender] + stakeOf[a] - stakeOf'[a],
                      ![Vault] = balance[Vault] + stakeOf'[a] - stakeOf[a]]
    BY <1>2, <1>4, <2>2
  <2>4. \A b \in Agent \ {a} : stakeOf'[b] = stakeOf[b]
    BY <1>3
  <2> QED
    BY <1>2, <2>1, <2>3, <2>4 DEF FundsFollowOperator
<1> QED
  BY <1>1, <1>5, <1>6, <1>7, <1>8

\* The operator's switch touches nothing of the ledger.
LEMMA LedgerUnchanged ==
  ASSUME LedgerTypeOK, PositionSound, UNCHANGED ledgerVars
  PROVE  LedgerTypeOK' /\ PositionSound' /\ FundsFollowOperator
BY DEF LedgerTypeOK, PositionSound, FundsFollowOperator, ledgerVars

-----------------------------------------------------------------------------

(***************************************************************************)
(* Whose G$ is whose.                                                      *)
(***************************************************************************)

\* The agents that p binds to x.
Held(p, x) == {a \in Agent : p[a] = x}

\* Bonded, by the names above, in a state and in the next.
LEMMA BondedIs ==
  ASSUME NEW x
  PROVE  /\ Bonded(x) = Total(stakeOf, Held(operatorOf, x))
         /\ Bonded(x)' = Total(stakeOf', Held(operatorOf', x))
BY DEF Bonded, Total, Held, MapThenSumSet, MapThenFoldSet

\* What one agent contributes to a total: its bond to its operator's, and
\* nothing to any other's.
LEMMA OneOfTheHeld ==
  ASSUME NEW f \in [Agent -> Nat], NEW p, NEW a \in Agent, NEW o, f[a] # 0 => p[a] = o, NEW x
  PROVE  /\ Total(f, Held(p, x) \ {a}) \in Nat
         /\ x = o => Total(f, Held(p, x)) = Total(f, Held(p, x) \ {a}) + f[a]
         /\ x # o => Total(f, Held(p, x)) = Total(f, Held(p, x) \ {a})
<1> DEFINE H == Held(p, x)
           rest == Total(f, H \ {a})
<1>1. H \subseteq Agent /\ (a \in H <=> p[a] = x)
  BY DEF Held
<1> HIDE DEF H
<1>2. IsFiniteSet(H) /\ IsFiniteSet(H \ {a})
  BY <1>1, FinitelyManyAgents, FS_Subset
<1>3. \A y \in H : f[y] \in Nat
  BY <1>1
<1>4. rest \in Nat
  BY <1>2, <1>3, TotalIsNat
<1>5. f[a] \in Nat
  OBVIOUS
<1>6. CASE a \in H
  <2>1. Total(f, H) = f[a] + rest
    BY <1>2, <1>3, <1>6, TotalWithout
  <2>2. f[a] + rest = rest + f[a] /\ (x # o => f[a] = 0 /\ f[a] + rest = rest)
    BY <1>1, <1>4, <1>5, <1>6
  <2> QED
    BY <1>4, <2>1, <2>2 DEF H
<1>7. CASE a \notin H
  <2>1. H \ {a} = H /\ (x = o => f[a] = 0)
    BY <1>1, <1>7
  <2> QED
    BY <1>4, <2>1 DEF H
<1> QED
  BY <1>4, <1>6, <1>7 DEF H

\* A move of one agent's bond to or from the wallet it is bound to, while the
\* bond is not nought, conserves what every wallet holds and has behind its agents.
LEMMA MoveConserves ==
  ASSUME LedgerTypeOK, LedgerTypeOK', Conserved,
         NEW a \in Agent, NEW o \in Account,
         stakeOf[a] # 0 => operatorOf[a] = o,
         stakeOf'[a] # 0 => operatorOf'[a] = o,
         \A b \in Agent \ {a} : stakeOf'[b] = stakeOf[b] /\ operatorOf'[b] = operatorOf[b],
         balance'[o] + stakeOf'[a] = balance[o] + stakeOf[a],
         \A x \in Account \ {o} : balance'[x] = balance[x]
  PROVE  Conserved'
<1> SUFFICES ASSUME NEW x \in Account
             PROVE  balance'[x] + Total(stakeOf', Held(operatorOf', x)) = Endowment
  BY BondedIs DEF Conserved
<1>1. balance[x] + Total(stakeOf, Held(operatorOf, x)) = Endowment
  BY BondedIs DEF Conserved
<1>2. /\ stakeOf \in [Agent -> Nat] /\ (stakeOf[a] # 0 => operatorOf[a] = o)
      /\ stakeOf' \in [Agent -> Nat] /\ (stakeOf'[a] # 0 => operatorOf'[a] = o)
  BY DEF LedgerTypeOK
<1> DEFINE H == Held(operatorOf, x) \ {a}
           rest == Total(stakeOf, H)
<1>3. /\ rest \in Nat
      /\ x = o => Total(stakeOf, Held(operatorOf, x)) = rest + stakeOf[a]
      /\ x # o => Total(stakeOf, Held(operatorOf, x)) = rest
  <2>1. rest \in Nat
    BY <1>2, OneOfTheHeld
  <2>2. x = o => Total(stakeOf, Held(operatorOf, x)) = rest + stakeOf[a]
    BY <1>2, OneOfTheHeld
  <2>3. x # o => Total(stakeOf, Held(operatorOf, x)) = rest
    BY <1>2, OneOfTheHeld
  <2> QED
    BY <2>1, <2>2, <2>3
<1>4. Held(operatorOf', x) \ {a} = H
  BY DEF Held
<1>5. Total(stakeOf', H) = rest
  <2>1. H \subseteq Agent /\ \A b \in H : stakeOf'[b] = stakeOf[b]
    BY DEF Held
  <2> HIDE DEF H
  <2>2. IsFiniteSet(H)
    BY <2>1, FinitelyManyAgents, FS_Subset
  <2> QED
    BY <2>1, <2>2, TotalSame
<1>6. /\ x = o => Total(stakeOf', Held(operatorOf', x)) = rest + stakeOf'[a]
      /\ x # o => Total(stakeOf', Held(operatorOf', x)) = rest
  <2>1. /\ x = o => Total(stakeOf', Held(operatorOf', x))
                      = Total(stakeOf', Held(operatorOf', x) \ {a}) + stakeOf'[a]
        /\ x # o => Total(stakeOf', Held(operatorOf', x))
                      = Total(stakeOf', Held(operatorOf', x) \ {a})
    BY <1>2, OneOfTheHeld
  <2> QED
    BY <1>4, <1>5, <2>1
<1>7. balance[x] \in Nat /\ balance'[x] \in Nat /\ stakeOf[a] \in Nat /\ stakeOf'[a] \in Nat
  BY DEF LedgerTypeOK
<1> HIDE DEF rest
<1>8. CASE x = o
  BY <1>1, <1>3, <1>6, <1>7, <1>8
<1>9. CASE x # o
  BY <1>1, <1>3, <1>6, <1>7, <1>9
<1> QED
  BY <1>8, <1>9

\* At first every wallet holds what it started with.
LEMMA ConservedInitially ==
  ASSUME LedgerInit
  PROVE  Conserved
<1> SUFFICES ASSUME NEW x \in Account
             PROVE  balance[x] + Total(stakeOf, Held(operatorOf, x)) = Endowment
  BY BondedIs DEF Conserved
<1>1. Held(operatorOf, x) = {}
  BY LedgerAssumption DEF LedgerInit, Held
<1>2. balance[x] = Endowment
  BY LedgerAssumption DEF LedgerInit
<1> QED
  BY <1>1, <1>2, TotalOfNone, LedgerAssumption

\* A stake by the wallet bound already, or for an agent that is not bound.
LEMMA DepositConserves ==
  ASSUME LedgerTypeOK, PositionSound, Conserved,
         NEW a \in Agent, NEW sender \in Account, NEW amount \in 1..Endowment,
         Deposit(a, sender, amount),
         operatorOf[a] \in {NoAddress, sender}
  PROVE  Conserved'
<1>1. LedgerTypeOK' /\ stakeOf'[a] = stakeOf[a] + amount
  BY DepositKeeps
<1>2. sender # Vault /\ amount \in Nat
  BY LedgerAssumption
<1>3. stakeOf[a] # 0 => operatorOf[a] = sender
  BY DEF PositionSound
<1>4. /\ operatorOf'[a] = sender
      /\ \A b \in Agent \ {a} : stakeOf'[b] = stakeOf[b] /\ operatorOf'[b] = operatorOf[b]
  BY DEF Deposit, LedgerTypeOK
<1>5. /\ balance'[sender] = balance[sender] - amount
      /\ \A x \in Account \ {sender} : balance'[x] = balance[x]
  BY <1>2, LedgerAssumption DEF Deposit, Transfer, LedgerTypeOK
<1>6. balance'[sender] + stakeOf'[a] = balance[sender] + stakeOf[a]
  <2>1. balance[sender] \in Nat /\ stakeOf[a] \in Nat
    BY DEF LedgerTypeOK
  <2> QED
    BY <1>1, <1>2, <1>5, <2>1
<1> QED
  BY <1>1, <1>3, <1>4, <1>5, <1>6, MoveConserves

\* A withdrawal, if no other binding is touched.
LEMMA PayOutConserves ==
  ASSUME LedgerTypeOK, PositionSound, Conserved,
         NEW a \in Agent, NEW sender \in Account, NEW amount \in 1..stakeOf[a],
         PayOut(a, sender, amount),
         operatorOf' \in [Agent -> Account \cup {NoAddress}],
         \A b \in Agent :
           operatorOf'[b] = operatorOf[b] \/ (b = a /\ stakeOf'[b] = 0)
  PROVE  Conserved'
<1>1. LedgerTypeOK' /\ stakeOf'[a] = stakeOf[a] - amount
  BY PayOutKeeps
<1>2. sender # Vault /\ operatorOf[a] = sender /\ stakeOf[a] \in Nat /\ amount \in Nat
  BY LedgerAssumption DEF PayOut, LedgerTypeOK
<1>3. stakeOf'[a] # 0 => operatorOf'[a] = sender
  BY <1>2
<1>4. \A b \in Agent \ {a} : stakeOf'[b] = stakeOf[b] /\ operatorOf'[b] = operatorOf[b]
  BY DEF PayOut, LedgerTypeOK
<1>5. /\ balance'[sender] = balance[sender] + amount
      /\ \A x \in Account \ {sender} : balance'[x] = balance[x]
  BY <1>2, LedgerAssumption DEF PayOut, Transfer, LedgerTypeOK
<1>6. balance'[sender] + stakeOf'[a] = balance[sender] + stakeOf[a]
  <2>1. balance[sender] \in Nat
    BY DEF LedgerTypeOK
  <2> QED
    BY <1>1, <1>2, <1>5, <2>1
<1> QED
  BY <1>1, <1>2, <1>3, <1>4, <1>5, <1>6, MoveConserves

\* A step that moves no G$, no bond and no binding.
LEMMA UnmovedConserves ==
  ASSUME Conserved, UNCHANGED <<balance, operatorOf, stakeOf>>
  PROVE  Conserved'
BY BondedIs DEF Conserved

-----------------------------------------------------------------------------

(***************************************************************************)
(* What the vault itself holds.                                            *)
(***************************************************************************)

\* Solvent, by the name above, in a state and in the next.
LEMMA SolventIs ==
  /\ Solvent <=> balance[Vault] = Total(stakeOf, Agent)
  /\ Solvent' <=> balance'[Vault] = Total(stakeOf', Agent)
BY DEF Solvent, Total, MapThenSumSet, MapThenFoldSet

\* The bonds add up to that of one agent and those of the others.
LEMMA OneOfAll ==
  ASSUME NEW f \in [Agent -> Nat], NEW a \in Agent
  PROVE  /\ Total(f, Agent \ {a}) \in Nat
         /\ Total(f, Agent) = f[a] + Total(f, Agent \ {a})
<1>1. IsFiniteSet(Agent) /\ IsFiniteSet(Agent \ {a}) /\ \A y \in Agent : f[y] \in Nat
  BY FinitelyManyAgents, FS_Subset
<1> QED
  BY <1>1, TotalIsNat, TotalWithout

\* A move of G$ into or out of the vault that the books of one agent follow.
LEMMA MoveIsSolvent ==
  ASSUME LedgerTypeOK, LedgerTypeOK', Solvent, NEW a \in Agent,
         \A b \in Agent \ {a} : stakeOf'[b] = stakeOf[b],
         balance'[Vault] + stakeOf[a] = balance[Vault] + stakeOf'[a]
  PROVE  Solvent'
<1>1. stakeOf \in [Agent -> Nat] /\ stakeOf' \in [Agent -> Nat]
  BY DEF LedgerTypeOK
<1> DEFINE rest == Total(stakeOf, Agent \ {a})
<1>2. rest \in Nat /\ balance[Vault] = stakeOf[a] + rest
  BY <1>1, OneOfAll, SolventIs
<1>3. Total(stakeOf', Agent \ {a}) = rest
  BY FinitelyManyAgents, FS_Subset, TotalSame
<1>4. Total(stakeOf', Agent) = stakeOf'[a] + rest
  BY <1>1, <1>3, OneOfAll
<1>5. balance'[Vault] \in Nat /\ stakeOf[a] \in Nat /\ stakeOf'[a] \in Nat
  BY <1>1 DEF LedgerTypeOK
<1> HIDE DEF rest
<1>6. balance'[Vault] = stakeOf'[a] + rest
  BY <1>2, <1>5
<1> QED
  BY <1>4, <1>6, SolventIs

\* The vault starts with nothing and owes nothing.
LEMMA SolventInitially ==
  ASSUME LedgerInit
  PROVE  Solvent
<1> DEFINE B == {S \in SUBSET Agent : Total(stakeOf, S) # 0}
<1>1. \A S \in B : FALSE
  <2> SUFFICES ASSUME B # {} PROVE FALSE
    OBVIOUS
  <2>1. PICK S \in B : \A t \in B : t \subseteq S => t = S
    <3>1. B \in SUBSET (SUBSET Agent)
      OBVIOUS
    <3> HIDE DEF B
    <3> QED
      BY <3>1, Smallest, FinitelyManyAgents
  <2>2. S # {} /\ IsFiniteSet(S)
    BY TotalOfNone, FinitelyManyAgents, FS_Subset
  <2>3. First(S) \in S /\ Total(stakeOf, S) = stakeOf[First(S)] + Total(stakeOf, S \ {First(S)})
    BY <2>2, FirstIsIn, TotalFromFirst
  <2>4. Total(stakeOf, S \ {First(S)}) = 0
    BY <2>1, <2>3
  <2> QED
    BY <2>3, <2>4 DEF LedgerInit
<1>2. Total(stakeOf, Agent) = 0
  BY <1>1
<1> QED
  BY <1>2, SolventIs, LedgerAssumption DEF LedgerInit

\* A stake brings in what it books.
LEMMA DepositIsSolvent ==
  ASSUME LedgerTypeOK, PositionSound, Solvent,
         NEW a \in Agent, NEW sender \in Account, NEW amount \in 1..Endowment,
         Deposit(a, sender, amount)
  PROVE  Solvent'
<1>1. LedgerTypeOK' /\ stakeOf'[a] = stakeOf[a] + amount
  BY DepositKeeps
<1>2. sender # Vault /\ amount \in Nat
  BY LedgerAssumption
<1>3. \A b \in Agent \ {a} : stakeOf'[b] = stakeOf[b]
  BY DEF Deposit, LedgerTypeOK
<1>4. balance'[Vault] = balance[Vault] + amount
  BY <1>2 DEF Deposit, Transfer, LedgerTypeOK
<1>5. balance'[Vault] + stakeOf[a] = balance[Vault] + stakeOf'[a]
  <2>1. balance[Vault] \in Nat /\ stakeOf[a] \in Nat
    BY DEF LedgerTypeOK
  <2> QED
    BY <1>1, <1>2, <1>4, <2>1
<1> QED
  BY <1>1, <1>3, <1>5, MoveIsSolvent

\* A withdrawal takes out what it strikes off.
LEMMA PayOutIsSolvent ==
  ASSUME LedgerTypeOK, PositionSound, Solvent,
         NEW a \in Agent, NEW sender \in Account, NEW amount \in 1..stakeOf[a],
         PayOut(a, sender, amount),
         operatorOf' \in [Agent -> Account \cup {NoAddress}],
         \A b \in Agent :
           operatorOf'[b] = operatorOf[b] \/ (b = a /\ stakeOf'[b] = 0)
  PROVE  Solvent'
<1>1. LedgerTypeOK' /\ stakeOf'[a] = stakeOf[a] - amount
  BY PayOutKeeps
<1>2. sender # Vault /\ stakeOf[a] \in Nat /\ amount \in Nat
  BY LedgerAssumption DEF LedgerTypeOK
<1>3. \A b \in Agent \ {a} : stakeOf'[b] = stakeOf[b]
  BY DEF PayOut, LedgerTypeOK
<1>4. balance'[Vault] = balance[Vault] - amount
  BY <1>2 DEF PayOut, Transfer, LedgerTypeOK
<1>5. balance'[Vault] + stakeOf[a] = balance[Vault] + stakeOf'[a]
  <2>1. balance[Vault] \in Nat
    BY DEF LedgerTypeOK
  <2> QED
    BY <1>1, <1>2, <1>4, <2>1
<1> QED
  BY <1>1, <1>3, <1>5, MoveIsSolvent

\* A step that moves no G$ and no bond.
LEMMA UnmovedIsSolvent ==
  ASSUME Solvent, UNCHANGED <<balance, stakeOf>>
  PROVE  Solvent'
BY SolventIs

\* No agent's bond is more than all of them.
LEMMA SolventRefunds ==
  ASSUME LedgerTypeOK, Solvent
  PROVE  Refundable
<1> SUFFICES ASSUME NEW a \in Agent PROVE stakeOf[a] <= balance[Vault]
  BY DEF Refundable
<1>1. stakeOf \in [Agent -> Nat]
  BY DEF LedgerTypeOK
<1>2. /\ Total(stakeOf, Agent \ {a}) \in Nat
      /\ balance[Vault] = stakeOf[a] + Total(stakeOf, Agent \ {a})
  BY <1>1, OneOfAll, SolventIs
<1> QED
  BY <1>1, <1>2

-----------------------------------------------------------------------------

\* One step of Next or a stutter, taken apart action by action.
LEMMA Inductive ==
  ASSUME TypeOK, PositionSound, [Next]_vars
  PROVE  TypeOK' /\ PositionSound' /\ FundsFollowOperator
<1> USE DEF TypeOK, RevocationTypeOK
<1>1. CASE Tick /\ UNCHANGED revokedAt
  <2>1. FundsFollowOperator
    BY <1>1 DEF Tick, FundsFollowOperator
  <2> QED
    BY <1>1, <2>1, TickKeeps
<1>2. ASSUME NEW a \in Agent, NEW s \in Account, NEW amount \in 1..Endowment,
             Stake(a, s, amount)
      PROVE  TypeOK' /\ PositionSound' /\ FundsFollowOperator
  BY <1>2, DepositKeeps DEF Stake
<1>3. ASSUME NEW a \in Agent, NEW s \in Account,
             RequestUnstake(a, s) /\ UNCHANGED revokedAt
      PROVE  TypeOK' /\ PositionSound' /\ FundsFollowOperator
  <2>1. FundsFollowOperator
    BY <1>3 DEF RequestUnstake, FundsFollowOperator
  <2> QED
    BY <1>3, <2>1, RequestKeeps
<1>4. ASSUME NEW a \in Agent, NEW s \in Account, NEW amount \in 1..stakeOf[a],
             WithdrawStake(a, s, amount)
      PROVE  TypeOK' /\ PositionSound' /\ FundsFollowOperator
  <2>1. /\ operatorOf' \in [Agent -> Account \cup {NoAddress}]
        /\ \A b \in Agent : operatorOf'[b] = operatorOf[b]
        /\ PayOut(a, s, amount)
        /\ UNCHANGED revokedAt
    BY <1>4 DEF WithdrawStake, LedgerTypeOK
  <2> QED
    BY <2>1, PayOutKeeps
<1>5. ASSUME NEW a \in Agent, NEW s \in Account, Revoke(a, s)
      PROVE  TypeOK' /\ PositionSound' /\ FundsFollowOperator
  <2>1. revokedAt' \in [Agent -> Nat]
    BY <1>5 DEF Revoke, LedgerTypeOK
  <2> QED
    BY <1>5, <2>1, LedgerUnchanged DEF Revoke
<1>6. ASSUME NEW a \in Agent, NEW s \in Account, Reinstate(a, s)
      PROVE  TypeOK' /\ PositionSound' /\ FundsFollowOperator
  <2>1. revokedAt' \in [Agent -> Nat]
    BY <1>6 DEF Reinstate
  <2> QED
    BY <1>6, <2>1, LedgerUnchanged DEF Reinstate
<1>7. CASE UNCHANGED vars
  BY <1>7, LedgerUnchanged DEF vars
<1> QED
  BY <1>1, <1>2, <1>3, <1>4, <1>5, <1>6, <1>7 DEF Next

\* Every reachable state is well typed and has sound positions: a bond always
\* has an operator to return to and is never below the minimum.
THEOREM Position == Spec => [](TypeOK /\ PositionSound)
<1>1. Init => TypeOK /\ PositionSound
  BY LedgerInitially DEF Init, RevocationInit, TypeOK, RevocationTypeOK
<1>2. TypeOK /\ PositionSound /\ [Next]_vars => (TypeOK /\ PositionSound)'
  BY Inductive
<1> QED
  BY <1>1, <1>2, PTL DEF Spec

\* TypeOK and PositionSound on their own, as the runs check them.
THEOREM TypeCorrect == Spec => []TypeOK
BY Position, PTL

\* G$ behind an agent of the deployed vault always has an operator and is never dust.
THEOREM PositionsSound == Spec => []PositionSound
BY Position, PTL

\* Non-custodial: G$ moves only between the vault and the operator of the one
\* agent whose bond changes, by exactly that change.
THEOREM NonCustodial == Spec => FundsFollowOperatorStep
<1>1. TypeOK /\ PositionSound /\ [Next]_vars => [FundsFollowOperator]_vars
  BY Inductive
<1> QED
  BY <1>1, Position, PTL DEF Spec, FundsFollowOperatorStep

\* What every step conserves, by the position it starts from: a bond is only
\* paid in by the wallet it is bound to, and only paid out to it.
LEMMA Conserves ==
  ASSUME TypeOK, PositionSound, Conserved, [Next]_vars
  PROVE  Conserved'
<1> USE DEF TypeOK
<1>1. ASSUME NEW a \in Agent, NEW s \in Account, NEW amount \in 1..Endowment,
             Stake(a, s, amount)
      PROVE  Conserved'
  BY <1>1, DepositConserves DEF Stake
<1>2. ASSUME NEW a \in Agent, NEW s \in Account, NEW amount \in 1..stakeOf[a],
             WithdrawStake(a, s, amount)
      PROVE  Conserved'
  <2>1. /\ operatorOf' \in [Agent -> Account \cup {NoAddress}]
        /\ \A b \in Agent : operatorOf'[b] = operatorOf[b]
        /\ PayOut(a, s, amount)
    BY <1>2 DEF WithdrawStake, LedgerTypeOK
  <2> QED
    BY <2>1, PayOutConserves
<1>3. CASE UNCHANGED <<balance, operatorOf, stakeOf>>
  BY <1>3, UnmovedConserves
<1> QED
  BY <1>1, <1>2, <1>3
  DEF Next, Tick, RequestUnstake, Revoke, Reinstate, vars, ledgerVars

\* Always refundable: every wallet's G$ and the bonds behind its agents add up
\* to what it started with.
THEOREM Conservation == Spec => []Conserved
<1>1. Init => Conserved
  BY ConservedInitially DEF Init
<1> QED
  BY <1>1, Conserves, Position, PTL DEF Spec

\* What the vault holds and what it owes change together.
LEMMA StaysSolvent ==
  ASSUME TypeOK, PositionSound, Solvent, [Next]_vars
  PROVE  Solvent'
<1> USE DEF TypeOK
<1>1. ASSUME NEW a \in Agent, NEW s \in Account, NEW amount \in 1..Endowment,
             Stake(a, s, amount)
      PROVE  Solvent'
  BY <1>1, DepositIsSolvent DEF Stake
<1>2. ASSUME NEW a \in Agent, NEW s \in Account, NEW amount \in 1..stakeOf[a],
             WithdrawStake(a, s, amount)
      PROVE  Solvent'
  <2>1. /\ operatorOf' \in [Agent -> Account \cup {NoAddress}]
        /\ \A b \in Agent : operatorOf'[b] = operatorOf[b]
        /\ PayOut(a, s, amount)
    BY <1>2 DEF WithdrawStake, LedgerTypeOK
  <2> QED
    BY <2>1, PayOutIsSolvent
<1>3. CASE UNCHANGED <<balance, stakeOf>>
  BY <1>3, UnmovedIsSolvent
<1> QED
  BY <1>1, <1>2, <1>3
  DEF Next, Tick, RequestUnstake, Revoke, Reinstate, vars, ledgerVars

\* The vault always holds exactly the bonds on its books.
THEOREM Solvency == Spec => []Solvent
<1>1. Init => Solvent
  BY SolventInitially DEF Init
<1> QED
  BY <1>1, StaysSolvent, Position, PTL DEF Spec

\* No withdrawal is ever refused for want of G$ in the vault: the token
\* transfer of withdrawStake cannot be what fails.
THEOREM AlwaysRefundable == Spec => []Refundable
<1>1. TypeOK /\ Solvent => Refundable
  BY SolventRefunds DEF TypeOK
<1> QED
  BY <1>1, Solvency, TypeCorrect, PTL

\* What a step does to the bindings there are.
BindingsKeep == \A a \in Agent : operatorOf[a] # NoAddress => operatorOf'[a] = operatorOf[a]

\* A stake is accepted from the wallet bound already; no other step binds.
LEMMA BindingsKept ==
  ASSUME TypeOK, [Next]_vars
  PROVE  BindingsKeep
<1>1. ASSUME NEW a \in Agent, NEW s \in Account, NEW amount \in 1..Endowment,
             Stake(a, s, amount)
      PROVE  BindingsKeep
  BY <1>1 DEF Stake, Deposit, TypeOK, LedgerTypeOK, BindingsKeep
<1>2. CASE UNCHANGED operatorOf
  BY <1>2 DEF BindingsKeep
<1> QED
  BY <1>1, <1>2
  DEF Next, Tick, RequestUnstake, WithdrawStake, Revoke, Reinstate, vars, ledgerVars

\* An operator, once bound, stays: stake alone assigns operatorOf, and only
\* for the wallet already bound or from address(0).
THEOREM OperatorPermanent == Spec => OperatorForGood
<1> DEFINE Kept == \A a \in Agent : operatorOf[a] # NoAddress => operatorOf'[a] = operatorOf[a]
<1>1. TypeOK /\ [Next]_vars => [Kept]_vars
  BY BindingsKept DEF BindingsKeep
<1> QED
  BY <1>1, TypeCorrect, PTL DEF Spec, OperatorForGood

-----------------------------------------------------------------------------

\* What a reader of the contracts sees of each step: a bond placed, topped up
\* (a stutter), released or partly withdrawn (a stutter), or a switch moved.
LEMMA StepRefines ==
  ASSUME TypeOK, PositionSound, Next
  PROVE  [Bond!BondNext]_(Bond!bondVars)
<1> DEFINE bonded == [a \in Agent |-> stakeOf[a] # 0]
           revoked == [a \in Agent |-> revokedAt[a] # 0]
<1> USE DEF TypeOK, LedgerTypeOK, RevocationTypeOK
<1>1. ASSUME NEW a \in Agent, NEW s \in Account, NEW amount \in 1..Endowment,
             Stake(a, s, amount)
      PROVE  Bond!Bond(a, s) \/ UNCHANGED Bond!bondVars
  <2>1. /\ Deposit(a, s, amount)
        /\ operatorOf[a] \in {NoAddress, s}
        /\ UNCHANGED revokedAt
        /\ operatorOf' = [operatorOf EXCEPT ![a] = s]
        /\ stakeOf' = [stakeOf EXCEPT ![a] = stakeOf[a] + amount]
    BY <1>1 DEF Stake, Deposit
  <2>2. stakeOf'[a] # 0
    BY <2>1, DepositKeeps
  <2>3. bonded' = [bonded EXCEPT ![a] = TRUE] /\ revoked' = revoked
    BY <2>1, <2>2
  <2>4. CASE stakeOf[a] = 0
    BY <2>1, <2>3, <2>4 DEF Bond!Bond
  <2>5. CASE stakeOf[a] # 0
    <3>1. operatorOf' = operatorOf
      BY <2>1, <2>5 DEF PositionSound
    <3>2. bonded' = bonded
      BY <2>3, <2>5
    <3> QED
      BY <2>3, <3>1, <3>2 DEF Bond!bondVars
  <2> QED
    BY <2>4, <2>5
<1>2. ASSUME NEW a \in Agent, NEW s \in Account, NEW amount \in 1..stakeOf[a],
             WithdrawStake(a, s, amount)
      PROVE  Bond!Release(a) \/ UNCHANGED Bond!bondVars
  <2>1. /\ stakeOf' = [stakeOf EXCEPT ![a] = stakeOf[a] - amount]
        /\ UNCHANGED <<operatorOf, revokedAt>>
        /\ stakeOf[a] # 0
    BY <1>2 DEF WithdrawStake, PayOut
  <2>2. CASE stakeOf[a] - amount = 0
    BY <2>1, <2>2 DEF Bond!Release
  <2>3. CASE stakeOf[a] - amount # 0
    BY <2>1, <2>3 DEF Bond!bondVars
  <2> QED
    BY <2>2, <2>3
<1>3. ASSUME NEW a \in Agent, NEW s \in Account, Revoke(a, s)
      PROVE  Bond!SetRevoked(a, TRUE)
  <2>1. /\ revokedAt' = [revokedAt EXCEPT ![a] = IF revokedAt[a] = 0 THEN now ELSE revokedAt[a]]
        /\ operatorOf[a] # NoAddress
        /\ UNCHANGED <<operatorOf, stakeOf>>
    BY <1>3 DEF Revoke, OnlyOperator, ledgerVars
  <2>2. revokedAt'[a] # 0
    BY <2>1
  <2> QED
    BY <2>1, <2>2 DEF Bond!SetRevoked
<1>4. ASSUME NEW a \in Agent, NEW s \in Account, Reinstate(a, s)
      PROVE  Bond!SetRevoked(a, FALSE)
  BY <1>4 DEF Reinstate, OnlyOperator, ledgerVars, Bond!SetRevoked
<1>5. CASE UNCHANGED <<operatorOf, stakeOf, revokedAt>>
  BY <1>5 DEF Bond!bondVars
<1>6. ASSUME NEW a \in Agent, NEW s \in Account, Bond!Bond(a, s)
      PROVE  Bond!BondNext
  BY <1>6 DEF Bond!BondNext
<1>7. ASSUME NEW a \in Agent, Bond!Release(a)
      PROVE  Bond!BondNext
  BY <1>7 DEF Bond!BondNext
<1>8. ASSUME NEW a \in Agent, NEW flag \in BOOLEAN, Bond!SetRevoked(a, flag)
      PROVE  Bond!BondNext
  BY <1>8 DEF Bond!BondNext
<1> QED
  BY <1>1, <1>2, <1>3, <1>4, <1>5, <1>6, <1>7, <1>8
  DEF Next, Tick, RequestUnstake

\* The deployed vault and its revocation registry implement AgentBond.
THEOREM Refinement == Spec => ImplementsBond
<1>1. Init => Bond!BondInit
  BY DEF Init, LedgerInit, RevocationInit, Bond!BondInit
<1>2. TypeOK /\ PositionSound /\ [Next]_vars => [Bond!BondNext]_(Bond!bondVars)
  <2>1. CASE UNCHANGED vars
    BY <2>1 DEF vars, ledgerVars, Bond!bondVars
  <2> QED
    BY <2>1, StepRefines
<1> QED
  BY <1>1, <1>2, Position, PTL DEF Spec, ImplementsBond, Bond!BondSpec

\* What AgentRegistry, with KeepsOperator, takes a step of the contracts to be
\* is what the deployed vault and its registry do, step by step: so what is
\* proved there of the register holds over these contracts.
THEOREM RegistryEnvironment ==
  Spec => Bond!BondInit /\ [][Bond!BondNext /\ BindingsKeep]_(Bond!bondVars)
<1>1. Init => Bond!BondInit
  BY DEF Init, LedgerInit, RevocationInit, Bond!BondInit
<1>2. TypeOK /\ PositionSound /\ [Next]_vars =>
        [Bond!BondNext /\ BindingsKeep]_(Bond!bondVars)
  <2>1. CASE UNCHANGED vars
    BY <2>1 DEF vars, ledgerVars, Bond!bondVars
  <2> QED
    BY <2>1, StepRefines, BindingsKept
<1> QED
  BY <1>1, <1>2, Position, PTL DEF Spec

=============================================================================
