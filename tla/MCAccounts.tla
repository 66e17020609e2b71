----------------------------- MODULE MCAccounts -----------------------------
(* Accounts and the limits on failed logins.  An attempt's way through the  *)
(* limits and what it does to users and sessions meet only in its result,   *)
(* which each module leaves open; so a behaviour is of one of the two.      *)
EXTENDS Accounts, LoginLimits, TLC

VARIABLE scene
all == <<accounts, limits, scene>>

MCInit == AccountsInit /\ LimitsInit /\ scene \in {"accounts", "limits"}
MCNext ==
    \/ scene = "accounts" /\ AccountsNext /\ UNCHANGED <<limits, scene>>
    \/ scene = "limits" /\ LimitsNext /\ UNCHANGED <<accounts, scene>>
MCSpec == MCInit /\ [][MCNext]_all

Symmetry == Permutations(Users) \cup Permutations(Ops) \cup Permutations(Sessions)
=============================================================================
