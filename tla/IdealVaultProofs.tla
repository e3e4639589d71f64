-------------------------- MODULE IdealVaultProofs --------------------------
(***************************************************************************)
(* Whatever implements the ideal vault has shares that add up and are      *)
(* backed, for any set of holders.                                         *)
(***************************************************************************)
EXTENDS IdealVault, VaultMathProofs

IdealInv == IdealTypeOK /\ BalancesAddUp /\ Solvent

\* The empty vault is in order.
LEMMA IdealInitSound == ASSUME IsFiniteSet(Holders), IdealInit PROVE IdealInv
  BY SumOfZeros
     DEF IdealInit, IdealInv, IdealTypeOK, BalancesAddUp, Solvent

\* A balance of h that changes by as much as the supply keeps the sum.
LEMMA OneBalanceChanges ==
  ASSUME IsFiniteSet(Holders), IdealInv, NEW h \in Holders, NEW n \in Int, balance[h] + n \in Nat,
         supply' = supply + n,
         balance' = [balance EXCEPT ![h] = balance[h] + n]
  PROVE  balance' \in [Holders -> Nat] /\ BalancesAddUp'
<1>1. balance \in [Holders -> Int] /\ SumFunction(balance) = supply
  BY DEF IdealInv, IdealTypeOK, BalancesAddUp
<1>2. SumFunction(balance') = supply'
  BY <1>1, SumAfterChange
<1>3. balance' \in [Holders -> Nat]
  BY DEF IdealInv, IdealTypeOK
<1> QED  BY <1>2, <1>3 DEF BalancesAddUp

\* Issuing no more shares than assets keeps the supply covered.
LEMMA IssueSound ==
  ASSUME IsFiniteSet(Holders), IdealInv, supply' \in Nat, assets' \in Nat,
         NEW h \in Holders, Issue(h)
  PROVE  IdealInv'
<1> DEFINE s1 == supply'
           a1 == assets'
           n == s1 - supply
<1>1. /\ supply \in Nat /\ assets \in Nat /\ balance[h] \in Nat /\ supply <= assets
      /\ s1 \in Nat /\ a1 \in Nat /\ n > 0 /\ n <= a1 - assets
      /\ balance' = [balance EXCEPT ![h] = balance[h] + n]
  BY DEF IdealInv, IdealTypeOK, Solvent, Issue
<1> HIDE DEF s1, a1
<1>2. n \in Int /\ balance[h] + n \in Nat /\ s1 = supply + n /\ s1 <= a1
  BY <1>1
<1> HIDE DEF n
<1>3. balance' \in [Holders -> Nat] /\ BalancesAddUp'
  BY <1>1, <1>2, OneBalanceChanges DEF s1
<1> QED
  BY <1>1, <1>2, <1>3 DEF IdealInv, IdealTypeOK, Solvent, s1, a1

\* Retiring pro rata keeps the supply covered.
LEMMA RetireSound ==
  ASSUME IsFiniteSet(Holders), IdealInv, supply' \in Nat, assets' \in Nat,
         NEW h \in Holders, Retire(h)
  PROVE  IdealInv'
<1> DEFINE s1 == supply'
           a1 == assets'
           r == supply - s1
           t == assets - a1
<1>1. /\ supply \in Nat /\ assets \in Nat /\ balance[h] \in Nat /\ supply <= assets
      /\ s1 \in Nat /\ a1 \in Nat
      /\ r \in 1..balance[h] /\ t \in 0..assets /\ t * supply <= r * assets
      /\ balance' = [balance EXCEPT ![h] = balance[h] - r]
  BY DEF IdealInv, IdealTypeOK, Solvent, Retire
<1> HIDE DEF s1, a1
<1>2. /\ r \in Nat /\ -r \in Int /\ s1 = supply + (-r) /\ supply > 0
      /\ balance[h] + (-r) \in Nat /\ balance[h] - r = balance[h] + (-r)
  BY <1>1
<1>3. s1 <= a1
  <2>1. (assets - t) * supply >= assets * (supply - r)
    BY <1>1, <1>2
  <2>2. a1 * supply >= assets * s1
    BY <1>1, <2>1
  <2>3. assets * s1 >= supply * s1
    BY <1>1
  <2>4. supply * s1 <= supply * a1
    BY <1>1, <2>2, <2>3
  <2> QED  BY <1>1, <1>2, <2>4
<1> HIDE DEF r
<1>4. balance' \in [Holders -> Nat] /\ BalancesAddUp'
  <2>1. balance' = [balance EXCEPT ![h] = balance[h] + (-r)]
    BY <1>1, <1>2
  <2> QED  BY <1>2, <2>1, OneBalanceChanges DEF s1
<1> QED
  BY <1>1, <1>3, <1>4 DEF IdealInv, IdealTypeOK, Solvent, s1, a1

\* Moving shares changes no total.
LEMMA MoveSound ==
  ASSUME IsFiniteSet(Holders), IdealInv, NEW from \in Holders, NEW to \in Holders, Move(from, to)
  PROVE  IdealInv'
<1> DEFINE m == balance[from] - balance'[from]
<1>1. /\ balance \in [Holders -> Nat] /\ m \in 1..balance[from] /\ from # to
      /\ UNCHANGED <<supply, assets>>
      /\ balance' = [balance EXCEPT ![from] = balance[from] - m, ![to] = balance[to] + m]
  BY DEF IdealInv, IdealTypeOK, Move
<1> HIDE DEF m
<1>2. /\ balance \in [Holders -> Int] /\ balance' \in [Holders -> Int] /\ from # to
      /\ balance'[from] + balance'[to] = balance[from] + balance[to]
      /\ \A h \in Holders : h # from /\ h # to => balance'[h] = balance[h]
  BY <1>1
<1>3. SumFunction(balance') = SumFunction(balance)
  BY <1>2, SumAfterMove
<1>4. balance' \in [Holders -> Nat]
  BY <1>1
<1> QED
  BY <1>1, <1>3, <1>4 DEF IdealInv, IdealTypeOK, BalancesAddUp, Solvent

\* Every step of the ideal vault keeps it in order.
LEMMA IdealNextSound ==
  ASSUME IsFiniteSet(Holders), IdealInv, [IdealNext]_idealVars
  PROVE  IdealInv'
<1>1. CASE IdealNext
  <2>1. supply' \in Nat /\ assets' \in Nat
    BY <1>1 DEF IdealNext
  <2>2. CASE Endow
    BY <2>1, <2>2 DEF Endow, IdealInv, IdealTypeOK, BalancesAddUp, Solvent
  <2> QED  BY <1>1, <2>1, <2>2, IssueSound, RetireSound, MoveSound DEF IdealNext
<1>2. CASE UNCHANGED idealVars
  BY <1>2 DEF idealVars, IdealInv, IdealTypeOK, BalancesAddUp, Solvent
<1> QED  BY <1>1, <1>2

\* Issuing and retiring pro rata keeps the books of any ideal vault: balances
\* add up to the supply, and the assets cover it.
THEOREM IdealVaultIsSound ==
  ASSUME IsFiniteSet(Holders)
  PROVE  IdealSpec => []IdealInv
<1>1. IdealInit => IdealInv
  BY IdealInitSound
<1>2. IdealInv /\ [IdealNext]_idealVars => IdealInv'
  BY IdealNextSound
<1> QED  BY <1>1, <1>2, PTL DEF IdealSpec
=============================================================================
