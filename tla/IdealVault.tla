---------------------------- MODULE IdealVault ----------------------------
(***************************************************************************)
(* What the vault promises its holders, without rates, roundings or        *)
(* storage: a supply of shares, each backed by a part of the assets, that  *)
(* is only issued and retired pro rata or at a loss to the one who asks.   *)
(***************************************************************************)
EXTENDS Integers, FiniteSets, Functions

CONSTANT Holders

VARIABLES
  supply,   \* shares in existence
  assets,   \* bTokens the pool holds for the vault
  balance   \* shares of each holder

idealVars == <<supply, assets, balance>>

IdealInit ==
  /\ supply = 0
  /\ assets = 0
  /\ balance = [h \in Holders |-> 0]

\* h brings assets and gets no more than its part of them in shares.
Issue(h) ==
  LET issued == supply' - supply
      added == assets' - assets
  IN  /\ issued > 0
      /\ issued <= added
      /\ issued * assets <= added * supply \/ supply = 0
      /\ balance' = [balance EXCEPT ![h] = @ + issued]

\* h gives up shares and takes no more than their part of the assets.
Retire(h) ==
  LET retired == supply - supply'
      taken == assets - assets'
  IN  /\ retired \in 1..balance[h]
      /\ taken \in 0..assets
      /\ taken * supply <= retired * assets
      /\ balance' = [balance EXCEPT ![h] = @ - retired]

\* Shares change hands.
Move(from, to) ==
  LET moved == balance[from] - balance'[from]
  IN  /\ from # to
      /\ moved \in 1..balance[from]
      /\ balance' = [balance EXCEPT ![from] = @ - moved, ![to] = @ + moved]
      /\ UNCHANGED <<supply, assets>>

\* Emissions are shared by all.
Endow ==
  /\ assets' >= assets
  /\ UNCHANGED <<supply, balance>>

IdealNext ==
  /\ supply' \in Nat
  /\ assets' \in Nat
  /\ \/ \E h \in Holders : Issue(h) \/ Retire(h)
     \/ \E from, to \in Holders : Move(from, to)
     \/ Endow

IdealSpec == IdealInit /\ [][IdealNext]_idealVars
-----------------------------------------------------------------------------
IdealTypeOK ==
  /\ supply \in Nat
  /\ assets \in Nat
  /\ balance \in [Holders -> Nat]

\* The shares the holders have are the shares in existence.
BalancesAddUp == SumFunction(balance) = supply

\* Every share is backed by at least one unit of assets.
Solvent == supply <= assets
=============================================================================
