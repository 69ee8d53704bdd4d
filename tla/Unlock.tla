------------------------------- MODULE Unlock -------------------------------
(***************************************************************************)
(* The two ways a coin is unlocked: several signers complete a transaction *)
(* (Cosign), or the parties of a contract spend its coin (Covenants).  A   *)
(* host keeps nothing of one while it works at the other, so a behaviour   *)
(* is about one deal; what it is not about is there in one state.          *)
(***************************************************************************)
EXTENDS Cosign, Covenants

VARIABLE deal

unlockVars == <<deal, vars, covenantVars>>

UnlockInit ==
  /\ deal \in {"transaction", "contract"}
  /\ Init /\ CovenantsInit
  /\ deal = "transaction" => name = CHOOSE n \in DOMAIN Contracts : TRUE
  /\ deal = "contract"    => inputs = CHOOSE t \in Templates : TRUE

UnlockNext ==
  /\ \/ deal = "transaction" /\ Next /\ UNCHANGED covenantVars
     \/ deal = "contract" /\ CovenantsNext /\ UNCHANGED vars
  /\ UNCHANGED deal

UnlockSpec == UnlockInit /\ [][UnlockNext]_unlockVars
=============================================================================
