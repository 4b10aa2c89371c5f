----------------------------- MODULE MCOnboarding ------------------------------
(* Workloads and symmetry for Onboarding. *)
EXTENDS Onboarding, TLC

CONSTANTS m1, m2

(* The first machine is set up in every way; the second joins an account. *)
Everything ==
  (m1 :> {"register", "recover", "wizard", "force", "remove", "revoke", "quit"})
    @@ (m2 :> {"register", "recover", "claim", "lock"})

Wizards == [m \in Machines |-> {"wizard"}]

Symmetry == Permutations(Users) \cup Permutations(Keys)
===============================================================================
