------------------------------- MODULE Custody -------------------------------
(***************************************************************************)
(* The wallets, the vault and the transaction builders of one owner.  The  *)
(* library keeps no state between the three: an owner spends with the host *)
(* wallet and the devices (Wallet), plans payments (Builder) or is in a    *)
(* room of the vault (Vault), and the rest is untouched meanwhile.         *)
(***************************************************************************)
EXTENDS Wallet, Vault, Builder

Spending == room.task = "wallet"
Planning == room.task = "plan"

\* What is not used in a behaviour is there in one state, whichever it is.
CustodyInit ==
  /\ VaultInit /\ Init
  /\ ~Spending => sc = CHOOSE s \in Scenes : TRUE
  /\ IF Planning THEN BuilderInit ELSE Opened(CHOOSE w \in Wallets : TRUE)

CustodyNext ==
  \/ Spending /\ Next /\ UNCHANGED <<vaultVars, builderVars>>
  \/ Planning /\ BuilderNext /\ UNCHANGED <<vars, vaultVars>>
  \/ VaultNext /\ UNCHANGED <<vars, builderVars>>

CustodySpec == CustodyInit /\ [][CustodyNext]_<<vars, vaultVars, builderVars>>
=============================================================================
