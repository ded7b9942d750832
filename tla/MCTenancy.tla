----------------------------- MODULE MCTenancy ------------------------------
(* A small instance of Tenancy.  The ids of each table are interchangeable. *)
EXTENDS Tenancy, TLC

IdSymmetry == Permutations(Orgs) \cup Permutations(Projects)
              \cup Permutations(Keys) \cup Permutations(Logs)
=============================================================================
