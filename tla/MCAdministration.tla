------------------------- MODULE MCAdministration -------------------------
(* The administration of restaurants for TLC: Wallet and StaffAccounts share *)
(* no state, so a behaviour follows one of them, chosen at its start, and    *)
(* the other one stays in one of its initial states.                        *)
EXTENDS Wallet, StaffAccounts, TLC

VARIABLE focus

mcVars == <<walletVars, accountsVars, focus>>

MCInit ==
  /\ focus \in {"wallet", "accounts"}
  /\ WalletInit /\ AccountsInit
  /\ focus = "wallet" => \A u \in Rows : users[u].role = "ADMIN"
  /\ focus = "accounts" => Prepaid(tenant) /\ \A b \in Starts : start <= b

MCNext ==
  /\ UNCHANGED focus
  /\ \/ focus = "wallet" /\ WalletNext /\ UNCHANGED accountsVars
     \/ focus = "accounts" /\ AccountsNext /\ UNCHANGED walletVars

MCSpec == MCInit /\ [][MCNext]_mcVars

Symmetry == Permutations(Hands) \cup Permutations(Desks)
===========================================================================
